---- MODULE Spec2Model ----
\* GitVault main process: the git:pull, git:push, git:commit, git:add,
\* git:status and git:log IPC handlers of the successive revisions of
\* main-process-handlers.js, the process wrappers they call, the error
\* classifier, and the repository registry; the renderer's App component;
\* the window and the auto-updater of the main process.
\*
\* One handler call is in flight at a time.  Every run of a git child process
\* is one step: the step draws the outcome of the process from the outcomes
\* git can produce and appends the command and what the wrapper settled with
\* to cmds, the record of the call (Spec).  RunnerSpec follows one call of a
\* process runner event by event: the child, its output, the timers and the
\* 'close' event.  RegistrySpec follows the registry handlers of up to two
\* callers, one step per file operation on REPOS_FILE; StoredRegistrySpec
\* does so for repositories:remove on a registry file left by an earlier run.
\* UiSpec follows the async functions of App from await to await, and
\* UpdaterSpec the listeners of the auto-updater.
EXTENDS Integers, Sequences, FiniteSets, TLC

VARIABLES
  repo,           \* the repository at repoPath, the argument of the call
  handler,        \* the handler in flight ("none" when idle)
  pc,             \* its position
  cmds,           \* the child processes started in this call, in order
  currentBranch,  \* local: the branch name the handler determined
  result,         \* local: the value a successful command resolved with
  ret,            \* the value returned to the renderer
  frags,          \* classifier call: the pieces the message is made of
  message,        \* classifier call: the failure message; commit call: the commit message
  errorType,      \* classifier call: the category returned
  commitProc,     \* commit call: the git process, its arguments and its output
  worktree,       \* status and log call: the changes and commits git reports
  runner,         \* runner call: the process runner in flight ("none" when idle)
  gitProcess,     \* runner call: the child process
  killed,         \* runner call: the flag the timeout callback sets
  timeoutId,      \* runner call: the timeout timer
  killTimer,      \* runner call: the 5 s timer started by the timeout callback
  signals,        \* runner call: the signals kill() delivered, in order
  stdoutSize,     \* runner call: bytes counted for stdout
  stderrSize,     \* runner call: bytes counted for stderr
  stdoutChunks,   \* runner call: the stdout text retained
  stderrChunks,   \* runner call: the stderr text retained
  written,        \* runner call: the data events so far
  promise,        \* runner call: what the promise settled with
  reposFile,      \* registry: REPOS_FILE, its text when it exists
  calls,          \* registry: the call of each caller, its position and locals
  history,        \* registry: the calls that have returned, in order
  ui,             \* renderer: the useState values of App
  tasks,          \* renderer: the async functions of App in flight, in order
  mainWindow,     \* main process: the argument of initializeAutoUpdater
  browserWindow,  \* main process: the BrowserWindow of createWindow
  updates         \* main process: the autoUpdater events and what was sent

runnerVars == <<runner, gitProcess, killed, timeoutId, killTimer, signals,
                stdoutSize, stderrSize, stdoutChunks, stderrChunks, written,
                promise>>

handlerVars == <<repo, handler, pc, cmds, currentBranch, result, ret,
                 frags, message, errorType, commitProc, worktree>>

registryVars == <<reposFile, calls, history>>

uiVars == <<ui, tasks>>

updaterVars == <<mainWindow, browserWindow, updates>>

vars == <<handlerVars, runnerVars, registryVars, uiVars, updaterVars>>

-----------------------------------------------------------------------------
\* JavaScript string methods

\* String.prototype.includes
includes(s, pat) ==
  \E i \in 1..(Len(s) - Len(pat) + 1) : SubSeq(s, i, i + Len(pat) - 1) = pat

startsWith(s, pat) ==
  Len(s) >= Len(pat) /\ SubSeq(s, 1, Len(pat)) = pat

UpperCaseLetters == "ABCDEFGHIJKLMNOPQRSTUVWXYZ"
LowerCaseLetters == "abcdefghijklmnopqrstuvwxyz"

lowerChar(c) ==
  IF \E i \in 1..Len(UpperCaseLetters) : SubSeq(UpperCaseLetters, i, i) = c
  THEN LET i == CHOOSE k \in 1..Len(UpperCaseLetters) :
                  SubSeq(UpperCaseLetters, k, k) = c
       IN  SubSeq(LowerCaseLetters, i, i)
  ELSE c

\* String.prototype.toLowerCase
RECURSIVE toLowerCase(_)
toLowerCase(s) ==
  IF s = "" THEN "" ELSE lowerChar(Head(s)) \o toLowerCase(Tail(s))

WhiteSpace == {" ", "\n", "\t", "\r"}

RECURSIVE trimStart(_)
trimStart(s) ==
  IF s # "" /\ Head(s) \in WhiteSpace THEN trimStart(Tail(s)) ELSE s

RECURSIVE trimEnd(_)
trimEnd(s) ==
  IF s # "" /\ SubSeq(s, Len(s), Len(s)) \in WhiteSpace
  THEN trimEnd(SubSeq(s, 1, Len(s) - 1))
  ELSE s

\* String.prototype.trim
trim(s) == trimEnd(trimStart(s))

\* a settled promise: resolved with a value or rejected with error.message
Resolved(v) == [ok |-> TRUE, value |-> v]
Rejected(m) == [ok |-> FALSE, value |-> m]

\* null, and a string, as JavaScript values
Null == [type |-> "null"]
Str(s) == [type |-> "string", s |-> s]

\* !v for a value that is null or a string
Falsy(v) == v = Null \/ v = Str("")

\* promise.catch(() => fallback), the fallback a JavaScript value
catchValue(settled, fallback) ==
  IF settled.ok THEN Str(settled.value) ELSE fallback

-----------------------------------------------------------------------------
\* The child processes.  What child_process hands the callback of exec and
\* execFile: error (null or not), error.killed, error.signal, error.message,
\* stdout, stderr.

ProcOK(out) ==
  [error |-> FALSE, killed |-> FALSE, signal |-> "", message |-> "",
   stdout |-> out, stderr |-> ""]

ProcFail(errText) ==
  [error |-> TRUE, killed |-> FALSE, signal |-> "", message |-> "Command failed",
   stdout |-> "", stderr |-> errText]

\* ended by the timeout option of exec / execFile
ProcTimedOut ==
  [error |-> TRUE, killed |-> TRUE, signal |-> "SIGTERM", message |-> "Command failed",
   stdout |-> "", stderr |-> ""]

\* executeGitCommand, the exec revision
executeGitCommand(proc, timeout) ==
  IF proc.error
  THEN IF proc.killed \/ proc.signal = "SIGTERM"
       THEN Rejected("Command timed out after " \o ToString(timeout) \o "ms")
       ELSE Rejected(IF proc.stderr # "" THEN proc.stderr ELSE proc.message)
  ELSE Resolved(trim(proc.stdout))

\* one entry of cmds
Ran(via, line, settled) ==
  [via |-> via, line |-> line, ok |-> settled.ok, value |-> settled.value]

-----------------------------------------------------------------------------
\* The repository and what git prints for it.

RemoteLists ==
  {<<>>, <<"origin">>, <<"upstream">>, <<"origin-backup">>, <<"upstream", "origin">>}

\* "" is a detached HEAD
Branches == {"main", ""}

Repos == [remotes : RemoteLists, branch : Branches]

HasOrigin(r) == \E i \in 1..Len(r.remotes) : r.remotes[i] = "origin"

RECURSIVE joinLines(_)
joinLines(names) ==
  IF names = <<>> THEN "" ELSE Head(names) \o "\n" \o joinLines(Tail(names))

\* git remote get-url origin
RemoteGetUrlProcs(r) ==
  IF HasOrigin(r)
  THEN {ProcOK("https://example.com/repo.git\n"), ProcTimedOut}
  ELSE {ProcFail("error: No such remote 'origin'\n"), ProcTimedOut}

\* git remote: one configured remote name per line
GitRemoteProcs(r) == {ProcOK(joinLines(r.remotes)), ProcTimedOut}

\* git branch --show-current: the branch name, nothing on a detached HEAD
BranchShowCurrentProcs(r) == {ProcOK(r.branch \o "\n"), ProcTimedOut}

\* git rev-parse --abbrev-ref HEAD: the branch name, HEAD on a detached HEAD
RevParseProcs(r) ==
  {ProcOK((IF r.branch = "" THEN "HEAD" ELSE r.branch) \o "\n"), ProcTimedOut}

PullFailTexts ==
  {"error: cannot pull with rebase: You have unstaged changes.\n",
   "error: cannot pull with rebase: Your index contains UNCOMMITTED changes.\n",
   "CONFLICT (content): Merge conflict in README.md\n",
   "fatal: unable to access 'https://example.com/repo.git/': Could not resolve host\n"}

PullProcs ==
  {ProcOK("Already up to date.\n"), ProcOK(""), ProcTimedOut, ProcFail("")}
    \cup {ProcFail(t) : t \in PullFailTexts}

StashProcs ==
  {ProcOK("Saved working directory and index state WIP on main\n"),
   ProcFail("error: could not write index\n"), ProcTimedOut}

StashPopProcs ==
  {ProcOK("Dropped refs/stash@{0}\n"),
   ProcFail("CONFLICT (content): Merge conflict in README.md\n"), ProcTimedOut}

PushFailTexts ==
  {"fatal: The current branch main has no upstream branch.\n",
   "use\n    git push --set-upstream origin main\n",
   "fatal: The current branch main Has No Upstream branch.\n",
   " ! [rejected] main -> main (non-fast-forward)\n",
   " ! [rejected] main -> main (fetch first)\nhint: git push --set-upstream\n",
   "fatal: Authentication failed for 'https://example.com/repo.git/'\n",
   "fatal: Authentication failed for 'https://example.com/upstream.git/'\n",
   "remote: Permission denied; main has no upstream branch\n",
   "fatal: unable to access 'https://example.com/repo.git/': Could not resolve host\n",
   "error: src refspec main does not match any\n"}

NoOriginText ==
  "fatal: 'origin' does not appear to be a git repository\nfatal: Could not read from remote repository.\n"

\* git push [--set-upstream] origin <branch>; without a remote named origin
\* git cannot reach one
PushProcs(r) ==
  IF HasOrigin(r)
  THEN {ProcOK("Everything up-to-date\n"), ProcOK(""), ProcTimedOut}
         \cup {ProcFail(t) : t \in PushFailTexts}
  ELSE {ProcFail(NoOriginText), ProcTimedOut}

NoRet == [pending |-> TRUE]

\* no call in flight
NoRepo == [remotes |-> <<>>, branch |-> ""]

\* no git process started by a commit call
NoArgs ==
  [started |-> FALSE, argv |-> <<>>, timedOut |-> FALSE, code |-> 0,
   stdout |-> "", stderr |-> ""]

\* a promise not settled yet
Pending == [pending |-> TRUE]

\* no child process
\* no status or log call: nothing reported
NoWorktree == [changes |-> <<>>, commits |-> <<>>]

\* REPOS_FILE does not exist
NoFile == [exists |-> FALSE, text |-> ""]

\* the renderer's invocations of a registry handler that can be in flight
Callers == {"first", "second"}

NoCall ==
  [op |-> "none", repoPath |-> "", pc |-> "idle", repositories |-> <<>>,
   alone |-> TRUE, ioError |-> FALSE]

NoCalls == [c \in Callers |-> NoCall]

\* the useState values of App before a repository is selected; branches,
\* commits and changes hold the path of the repository whose data they are,
\* "" for the empty array
NoSelection ==
  [loading |-> FALSE, activeRepo |-> Null, branches |-> "", commits |-> "",
   changes |-> ""]

\* initializeAutoUpdater has not been called
NotCalled == [type |-> "none"]

NoProcess ==
  [state |-> "none", killed |-> FALSE, code |-> 0, signal |-> "",
   exits |-> FALSE, ignoresSIGTERM |-> FALSE, bulk |-> FALSE, endedBy |-> ""]

\* no runner call in flight
RunnerIdle ==
  /\ runner = "none"
  /\ gitProcess = NoProcess
  /\ killed = FALSE
  /\ timeoutId = "none"
  /\ killTimer = "none"
  /\ signals = <<>>
  /\ stdoutSize = 0
  /\ stderrSize = 0
  /\ stdoutChunks = ""
  /\ stderrChunks = ""
  /\ written = 0
  /\ promise = Pending

\* the main process with its handlers registered and no call made
NoCallYet ==
  /\ RunnerIdle
  /\ commitProc = NoArgs
  /\ worktree = NoWorktree
  /\ calls = NoCalls
  /\ history = <<>>
  /\ ui = NoSelection
  /\ tasks = <<>>
  /\ mainWindow = NotCalled
  /\ browserWindow = "none"
  /\ updates = <<>>
  /\ repo = NoRepo
  /\ handler = "none"
  /\ pc = "idle"
  /\ cmds = <<>>
  /\ currentBranch = ""
  /\ result = ""
  /\ ret = NoRet
  /\ frags = <<>>
  /\ message = ""
  /\ errorType = ""

Init == NoCallYet /\ reposFile = NoFile

\* the handler returns value v to the renderer
Return(v) ==
  /\ pc' = "done"
  /\ ret' = v

-----------------------------------------------------------------------------
\* ipcMain.handle('git:pull'), the revision with stash recovery
\* (main-process-handlers.js second revision; part_003 differs in the timeout)

PullHandlers == {"pull", "pullP3"}

PullTimeout(h) == IF h = "pull" THEN 300000 ELSE 60000

\* the validation without the test of the remote
PullPrecheckBranchOnly(remoteUrl, branch) ==
  IF Falsy(branch) \/ trim(branch.s) = ""
  THEN [success |-> FALSE, error |-> "Not on any branch. Cannot pull."]
  ELSE NoRet

\* the validation of the two lookups: the early return, or NoRet to go on
PullPrecheck(remoteUrl, branch) ==
  IF Falsy(remoteUrl)
  THEN [success |-> FALSE,
        error |-> "No remote repository configured. Add a remote first."]
  ELSE IF Falsy(branch) \/ trim(branch.s) = ""
  THEN [success |-> FALSE, error |-> "Not on any branch. Cannot pull."]
  ELSE NoRet

\* the call, the two lookups of Promise.all and the validation
PullLookup ==
  /\ pc = "idle"
  /\ \E r \in Repos, h \in PullHandlers :
     \E pr \in RemoteGetUrlProcs(r), pb \in BranchShowCurrentProcs(r) :
       LET sr == executeGitCommand(pr, 5000)
           sb == executeGitCommand(pb, 5000)
           remoteUrl == catchValue(sr, Null)
           branch == catchValue(sb, Null)
           early == PullPrecheck(remoteUrl, branch)
       IN  /\ repo' = r
           /\ handler' = h
           /\ cmds' = <<Ran("exec", "git remote get-url origin", sr),
                        Ran("exec", "git branch --show-current", sb)>>
           /\ IF early # NoRet
              THEN Return(early) /\ UNCHANGED currentBranch
              ELSE /\ pc' = "pull_rebase"
                   /\ currentBranch' = trim(branch.s)
                   /\ UNCHANGED ret
  /\ UNCHANGED <<result, frags, message, errorType, commitProc, worktree, runnerVars, registryVars, uiVars, updaterVars>>

\* the test on the lower-cased message of the failed rebase pull
MentionsLocalChanges(errorMsg) ==
  includes(errorMsg, "unstaged") \/ includes(errorMsg, "uncommitted")

\* git pull --rebase origin <branch>, the first attempt
PullRebase ==
  /\ pc = "pull_rebase"
  /\ \E p \in PullProcs :
       LET line == "git pull --rebase origin " \o currentBranch
           s == executeGitCommand(p, PullTimeout(handler))
       IN  /\ cmds' = Append(cmds, Ran("exec", line, s))
           /\ IF s.ok
              THEN Return([success |-> TRUE, result |-> s.value])
              ELSE /\ pc' = IF MentionsLocalChanges(toLowerCase(s.value))
                            THEN "pull_stash" ELSE "pull_fallback"
                   /\ UNCHANGED ret
  /\ UNCHANGED <<repo, handler, currentBranch, result, frags, message, errorType, commitProc, worktree, runnerVars, registryVars, uiVars, updaterVars>>

\* git stash; a failure goes to the catch (stashError)
PullStash ==
  /\ pc = "pull_stash"
  /\ \E p \in StashProcs :
       LET s == executeGitCommand(p, 10000)
       IN  /\ cmds' = Append(cmds, Ran("exec", "git stash", s))
           /\ pc' = IF s.ok THEN "pull_rebase_retry" ELSE "pull_stash_fallback"
  /\ UNCHANGED <<repo, handler, currentBranch, result, ret, frags, message, errorType, commitProc, worktree, runnerVars, registryVars, uiVars, updaterVars>>

\* the retried git pull --rebase; a failure goes to the same catch
PullRebaseRetry ==
  /\ pc = "pull_rebase_retry"
  /\ \E p \in PullProcs :
       LET line == "git pull --rebase origin " \o currentBranch
           s == executeGitCommand(p, PullTimeout(handler))
       IN  /\ cmds' = Append(cmds, Ran("exec", line, s))
           /\ IF s.ok
              THEN /\ pc' = "pull_stash_pop"
                   /\ result' = s.value
              ELSE /\ pc' = "pull_stash_fallback"
                   /\ UNCHANGED result
  /\ UNCHANGED <<repo, handler, currentBranch, ret, frags, message, errorType, commitProc, worktree, runnerVars, registryVars, uiVars, updaterVars>>

\* git stash pop without its .catch: a failed pop fails the call
StashPopReturnStrict(popSettled, pulled) ==
  IF popSettled.ok THEN [success |-> TRUE, result |-> pulled]
                   ELSE [success |-> FALSE, error |-> popSettled.value]

\* what the handler returns after git stash pop settled with popSettled
StashPopReturn(popSettled, pulled) == [success |-> TRUE, result |-> pulled]

\* git stash pop with .catch(() => { }), then the return
PullStashPop ==
  /\ pc = "pull_stash_pop"
  /\ \E p \in StashPopProcs :
       LET s == executeGitCommand(p, 10000)
       IN  /\ cmds' = Append(cmds, Ran("exec", "git stash pop", s))
           /\ Return(StashPopReturn(s, result))
  /\ UNCHANGED <<repo, handler, currentBranch, result, frags, message, errorType, commitProc, worktree, runnerVars, registryVars, uiVars, updaterVars>>

\* the plain pull with its failure swallowed
PlainPullReturnAlways(s) == [success |-> TRUE, result |-> s.value]

\* what the handler returns after the plain pull settled
PlainPullReturn(s) ==
  IF s.ok THEN [success |-> TRUE, result |-> s.value]
          ELSE [success |-> FALSE, error |-> s.value]

\* git pull origin <branch> in the catch of the stash-and-retry block
PullStashFallback ==
  /\ pc = "pull_stash_fallback"
  /\ \E p \in PullProcs :
       LET line == "git pull origin " \o currentBranch
           s == executeGitCommand(p, PullTimeout(handler))
       IN  /\ cmds' = Append(cmds, Ran("exec", line, s))
           /\ Return(PlainPullReturn(s))
  /\ UNCHANGED <<repo, handler, currentBranch, result, frags, message, errorType, commitProc, worktree, runnerVars, registryVars, uiVars, updaterVars>>

\* git pull origin <branch>, the fallback for the other rebase failures
PullFallback ==
  /\ pc = "pull_fallback"
  /\ \E p \in PullProcs :
       LET line == "git pull origin " \o currentBranch
           s == executeGitCommand(p, PullTimeout(handler))
       IN  /\ cmds' = Append(cmds, Ran("exec", line, s))
           /\ Return(PlainPullReturn(s))
  /\ UNCHANGED <<repo, handler, currentBranch, result, frags, message, errorType, commitProc, worktree, runnerVars, registryVars, uiVars, updaterVars>>

-----------------------------------------------------------------------------
\* ipcMain.handle('git:push'), main-process-handlers.js second revision

\* the outer catch: the messages by the text of the failure
PushV2Catch(errorMsg) ==
  IF includes(errorMsg, "reject") \/ includes(errorMsg, "non-fast-forward")
  THEN [success |-> FALSE,
        error |-> "Push rejected: Remote has newer commits. Pull first."]
  ELSE IF includes(errorMsg, "Could not resolve host")
          \/ includes(errorMsg, "unable to access")
  THEN [success |-> FALSE,
        error |-> "Network error: Check your internet connection."]
  ELSE IF includes(errorMsg, "Authentication failed") \/ includes(errorMsg, "denied")
  THEN [success |-> FALSE,
        error |-> "Authentication failed: Check your Git credentials."]
  ELSE IF includes(errorMsg, "No configured push destination")
          \/ includes(errorMsg, "no remote")
  THEN [success |-> FALSE,
        error |-> "No remote configured. Add a remote repository first."]
  ELSE IF includes(errorMsg, "timed out")
  THEN [success |-> FALSE,
        error |-> "Push timeout: Large repository or slow connection. Try from terminal."]
  ELSE [success |-> FALSE, error |-> errorMsg]

\* the test with its second alternative left out
PushV2NeedsUpstreamFlagOnly(errorMsg) ==
  includes(errorMsg, "--set-upstream")

\* the test of the inner catch that starts the upstream retry
PushV2NeedsUpstream(errorMsg) ==
  includes(errorMsg, "--set-upstream") \/ includes(errorMsg, "has no upstream")

\* the call and git branch --show-current (not caught: a failure goes to the
\* outer catch)
PushV2Branch ==
  /\ pc = "idle"
  /\ \E r \in Repos : \E p \in BranchShowCurrentProcs(r) :
       LET s == executeGitCommand(p, 3000)
       IN  /\ repo' = r
           /\ handler' = "pushV2"
           /\ cmds' = <<Ran("exec", "git branch --show-current", s)>>
           /\ IF ~s.ok
              THEN Return(PushV2Catch(s.value)) /\ UNCHANGED currentBranch
              ELSE IF s.value = "" \/ trim(s.value) = ""
              THEN /\ Return([success |-> FALSE,
                              error |-> "Not on any branch. Checkout a branch first."])
                   /\ UNCHANGED currentBranch
              ELSE /\ pc' = "pushV2_push"
                   /\ currentBranch' = trim(s.value)
                   /\ UNCHANGED ret
  /\ UNCHANGED <<result, frags, message, errorType, commitProc, worktree, runnerVars, registryVars, uiVars, updaterVars>>

\* git push origin <branch>
PushV2Push ==
  /\ pc = "pushV2_push"
  /\ \E p \in PushProcs(repo) :
       LET s == executeGitCommand(p, 60000)
       IN  /\ cmds' = Append(cmds, Ran("exec", "git push origin " \o currentBranch, s))
           /\ IF s.ok
              THEN Return([success |-> TRUE, result |-> s.value])
              ELSE IF PushV2NeedsUpstream(s.value)
              THEN pc' = "pushV2_upstream" /\ UNCHANGED ret
              ELSE Return(PushV2Catch(s.value))
  /\ UNCHANGED <<repo, handler, currentBranch, result, frags, message, errorType, commitProc, worktree, runnerVars, registryVars, uiVars, updaterVars>>

\* git push --set-upstream origin <branch>; its failure is thrown from the
\* inner catch to the outer one
PushV2SetUpstream ==
  /\ pc = "pushV2_upstream"
  /\ \E p \in PushProcs(repo) :
       LET s == executeGitCommand(p, 60000)
       IN  /\ cmds' = Append(cmds,
                 Ran("exec", "git push --set-upstream origin " \o currentBranch, s))
           /\ IF s.ok
              THEN Return([success |-> TRUE, result |-> s.value])
              ELSE Return(PushV2Catch(s.value))
  /\ UNCHANGED <<repo, handler, currentBranch, result, frags, message, errorType, commitProc, worktree, runnerVars, registryVars, uiVars, updaterVars>>

-----------------------------------------------------------------------------
\* ipcMain.handle('git:push'), the revision of part_003

\* the test of the catch that starts the upstream retry, on the lower-cased
\* message
PushP3NeedsUpstream(errorMsg) ==
  includes(errorMsg, "upstream") \/ includes(errorMsg, "set-upstream")

\* the rest of the catch; message is error.message, errorMsg its lower case
PushP3Catch(msg, errorMsg) ==
  IF includes(errorMsg, "rejected") \/ includes(errorMsg, "non-fast-forward")
  THEN [success |-> FALSE, error |->
    "Push rejected. Remote repository has newer commits. Please pull changes first."]
  ELSE IF includes(errorMsg, "denied") \/ includes(errorMsg, "authentication")
  THEN [success |-> FALSE, error |-> "Authentication failed. Check your credentials."]
  ELSE IF includes(errorMsg, "timed out")
  THEN [success |-> FALSE,
        error |-> "Push operation timed out. Check your network connection."]
  ELSE [success |-> FALSE, error |-> msg]

\* the call, the two lookups of Promise.all and the validation
PushP3Lookup ==
  /\ pc = "idle"
  /\ \E r \in Repos : \E pr \in GitRemoteProcs(r), pb \in BranchShowCurrentProcs(r) :
       LET sr == executeGitCommand(pr, 5000)
           sb == executeGitCommand(pb, 5000)
           remotes == catchValue(sr, Str(""))
           branch == catchValue(sb, Str(""))
       IN  /\ repo' = r
           /\ handler' = "pushP3"
           /\ cmds' = <<Ran("exec", "git remote", sr),
                        Ran("exec", "git branch --show-current", sb)>>
           /\ IF Falsy(remotes) \/ ~includes(remotes.s, "origin")
              THEN /\ Return([success |-> FALSE, error |->
                     "No remote repository named \"origin\" configured. Add a remote first."])
                   /\ UNCHANGED currentBranch
              ELSE IF trim(branch.s) = ""
              THEN /\ Return([success |-> FALSE, error |->
                     "Cannot push from detached HEAD state. Please checkout a branch."])
                   /\ UNCHANGED currentBranch
              ELSE /\ pc' = "pushP3_push"
                   /\ currentBranch' = trim(branch.s)
                   /\ UNCHANGED ret
  /\ UNCHANGED <<result, frags, message, errorType, commitProc, worktree, runnerVars, registryVars, uiVars, updaterVars>>

\* git push origin <branch>
PushP3Push ==
  /\ pc = "pushP3_push"
  /\ \E p \in PushProcs(repo) :
       LET s == executeGitCommand(p, 60000)
       IN  /\ cmds' = Append(cmds, Ran("exec", "git push origin " \o currentBranch, s))
           /\ IF s.ok
              THEN Return([success |-> TRUE, result |-> s.value])
              ELSE IF PushP3NeedsUpstream(toLowerCase(s.value))
              THEN pc' = "pushP3_relookup" /\ UNCHANGED ret
              ELSE Return(PushP3Catch(s.value, toLowerCase(s.value)))
  /\ UNCHANGED <<repo, handler, currentBranch, result, frags, message, errorType, commitProc, worktree, runnerVars, registryVars, uiVars, updaterVars>>

\* the catch looks the branch up again before the retry
PushP3Relookup ==
  /\ pc = "pushP3_relookup"
  /\ \E p \in BranchShowCurrentProcs(repo) :
       LET s == executeGitCommand(p, 5000)
       IN  /\ cmds' = Append(cmds, Ran("exec", "git branch --show-current", s))
           /\ IF s.ok
              THEN /\ pc' = "pushP3_upstream"
                   /\ currentBranch' = trim(s.value)
                   /\ UNCHANGED ret
              ELSE /\ Return([success |-> FALSE,
                              error |-> "Failed to set upstream branch."])
                   /\ UNCHANGED currentBranch
  /\ UNCHANGED <<repo, handler, result, frags, message, errorType, commitProc, worktree, runnerVars, registryVars, uiVars, updaterVars>>

\* git push --set-upstream origin <branch>
PushP3SetUpstream ==
  /\ pc = "pushP3_upstream"
  /\ \E p \in PushProcs(repo) :
       LET s == executeGitCommand(p, 60000)
       IN  /\ cmds' = Append(cmds,
                 Ran("exec", "git push --set-upstream origin " \o currentBranch, s))
           /\ IF s.ok
              THEN Return([success |-> TRUE, result |-> s.value])
              ELSE Return([success |-> FALSE,
                           error |-> "Failed to set upstream branch."])
  /\ UNCHANGED <<repo, handler, currentBranch, result, frags, message, errorType, commitProc, worktree, runnerVars, registryVars, uiVars, updaterVars>>

-----------------------------------------------------------------------------
\* The classifier (part_001, first revision)

\* the network patterns without the two that match a timeout
NetworkPatternsNoTimeout ==
  {"could not resolve host", "unable to access", "connection refused",
   "network is unreachable"}

\* the patterns of the first test of classifyGitError
NetworkPatterns ==
  {"could not resolve host", "unable to access", "connection refused",
   "network is unreachable", "timed out", "timeout"}

AuthPatterns ==
  {"authentication failed", "permission denied", "could not read from remote",
   "invalid credentials", "denied", "403", "401"}

ConflictPatterns ==
  {"rejected", "non-fast-forward", "fetch first", "cannot lock ref"}

UpstreamPatterns ==
  {"no upstream", "does not have a commit checked out", "no tracking information"}

\* msg.includes(p1) || msg.includes(p2) || ...
includesAny(msg, patterns) == \E p \in patterns : includes(msg, p)

\* the classifier with the first two tests in the other order
classifyGitErrorAuthFirst(m) ==
  LET msg == toLowerCase(m)
  IN  IF includesAny(msg, AuthPatterns) THEN "AUTH_ERROR"
      ELSE IF includesAny(msg, NetworkPatterns) THEN "NETWORK_ERROR"
      ELSE IF includesAny(msg, ConflictPatterns) THEN "CONFLICT_ERROR"
      ELSE IF includesAny(msg, UpstreamPatterns) THEN "NO_UPSTREAM"
      ELSE "UNKNOWN_ERROR"

\* the classifier without toLowerCase
classifyGitErrorCaseSensitive(m) ==
  IF includesAny(m, NetworkPatterns) THEN "NETWORK_ERROR"
  ELSE IF includesAny(m, AuthPatterns) THEN "AUTH_ERROR"
  ELSE IF includesAny(m, ConflictPatterns) THEN "CONFLICT_ERROR"
  ELSE IF includesAny(m, UpstreamPatterns) THEN "NO_UPSTREAM"
  ELSE "UNKNOWN_ERROR"

classifyGitError(m) ==
  LET msg == toLowerCase(m)
  IN  IF includesAny(msg, NetworkPatterns) THEN "NETWORK_ERROR"
      ELSE IF includesAny(msg, AuthPatterns) THEN "AUTH_ERROR"
      ELSE IF includesAny(msg, ConflictPatterns) THEN "CONFLICT_ERROR"
      ELSE IF includesAny(msg, UpstreamPatterns) THEN "NO_UPSTREAM"
      ELSE "UNKNOWN_ERROR"

\* the table of getHumanReadableError
HumanReadableMessages(originalMessage) ==
  [NETWORK_ERROR |-> "Network error. Check your internet connection.",
   AUTH_ERROR |-> "Authentication failed. Check your credentials or SSH keys.",
   CONFLICT_ERROR |-> "Push rejected. Pull remote changes first.",
   NO_UPSTREAM |-> "No upstream branch configured.",
   NO_REMOTE |-> "No remote repository configured.",
   UNKNOWN_ERROR |-> IF originalMessage # "" THEN originalMessage
                     ELSE "An unexpected error occurred."]

getHumanReadableErrorGeneric(type, originalMessage) ==
  IF type = "UNKNOWN_ERROR" THEN "An unexpected error occurred."
  ELSE HumanReadableMessages(originalMessage)[type]

getHumanReadableError(type, originalMessage) ==
  LET messages == HumanReadableMessages(originalMessage)
  IN  IF type \in DOMAIN messages /\ messages[type] # ""
      THEN messages[type] ELSE originalMessage

\* the catch of the streaming pull and push handlers
ClassifiedFailure(msg) ==
  LET type == classifyGitError(msg)
  IN  [success |-> FALSE, error |-> getHumanReadableError(type, msg),
       errorType |-> type, details |-> msg]

-----------------------------------------------------------------------------
\* A direct call of classifyGitError on a message put together from pieces.
\* Each piece holds patterns of one category only (cat), so the categories a
\* message matches are those of its pieces.

Piece(cat, text) == [cat |-> cat, text |-> text]

Pieces ==
  {Piece("NETWORK_ERROR", "fatal: Could not resolve host: github.com"),
   Piece("NETWORK_ERROR", "fatal: unable to access 'https://example.com/'"),
   Piece("NETWORK_ERROR", "connect: Connection Refused"),
   Piece("NETWORK_ERROR", "NETWORK IS UNREACHABLE"),
   Piece("NETWORK_ERROR", "Operation Timed Out"),
   Piece("NETWORK_ERROR", "TIMEOUT: Command"),
   Piece("AUTH_ERROR", "Authentication failed for 'https://example.com/'"),
   Piece("AUTH_ERROR", "Permission denied (publickey)"),
   Piece("AUTH_ERROR", "Could not read from remote repository"),
   Piece("AUTH_ERROR", "Invalid Credentials"),
   Piece("AUTH_ERROR", "access DENIED"),
   Piece("AUTH_ERROR", "HTTP 403"),
   Piece("AUTH_ERROR", "HTTP 401"),
   Piece("CONFLICT_ERROR", "! [rejected] main -> main"),
   Piece("CONFLICT_ERROR", "(Non-Fast-Forward)"),
   Piece("CONFLICT_ERROR", "(fetch first)"),
   Piece("CONFLICT_ERROR", "cannot lock ref 'refs/heads/main'"),
   Piece("NO_UPSTREAM", "The current branch main has no upstream branch"),
   Piece("NO_UPSTREAM", "does not have a commit checked out"),
   Piece("NO_UPSTREAM", "There is No Tracking Information"),
   Piece("UNKNOWN_ERROR", "error: src refspec main does not match any"),
   Piece("UNKNOWN_ERROR", "Git exited with code 1")}

\* the longest message, in pieces
MaxPieces == 2

PieceSeqs == UNION {[1..n -> Pieces] : n \in 0..MaxPieces}

RECURSIVE joinPieces(_)
joinPieces(ps) ==
  IF ps = <<>> THEN ""
  ELSE IF Len(ps) = 1 THEN ps[1].text
  ELSE Head(ps).text \o "; " \o joinPieces(Tail(ps))

ClassifyCall ==
  /\ pc = "idle"
  /\ \E ps \in PieceSeqs :
       /\ frags' = ps
       /\ message' = joinPieces(ps)
       /\ errorType' = classifyGitError(joinPieces(ps))
  /\ handler' = "classifyGitError"
  /\ pc' = "done"
  /\ UNCHANGED <<repo, cmds, currentBranch, result, ret, commitProc, worktree, runnerVars, registryVars, uiVars, updaterVars>>

-----------------------------------------------------------------------------
\* ipcMain.handle('git:push'), the streaming revision (part_001, first revision)

\* runGit, the execFile wrapper
runGit(proc, timeout) ==
  IF proc.error
  THEN IF proc.killed
       THEN Rejected("Command timed out")
       ELSE Rejected(IF proc.stderr # "" THEN proc.stderr ELSE proc.message)
  ELSE Resolved(trim(proc.stdout))

\* What runGitStream has when the child is gone: the 'error' event
\* (spawnError), or 'close' with code and signal; killed is the flag the
\* timer of runGitStream sets; NoCode is the null code of a signalled child.
NoCode == 0 - 1

StreamExit(code, out, errText) ==
  [spawnError |-> "", killed |-> FALSE, signal |-> "", code |-> code,
   stdout |-> out, stderr |-> errText]

StreamTimedOut ==
  [spawnError |-> "", killed |-> TRUE, signal |-> "SIGTERM", code |-> NoCode,
   stdout |-> "", stderr |-> ""]

StreamSignalled(sig) ==
  [spawnError |-> "", killed |-> FALSE, signal |-> sig, code |-> NoCode,
   stdout |-> "", stderr |-> ""]

StreamSpawnError(m) ==
  [spawnError |-> m, killed |-> FALSE, signal |-> "", code |-> NoCode,
   stdout |-> "", stderr |-> ""]

runGitStreamStdoutOnly(proc) ==
  IF proc.spawnError # ""
  THEN Rejected("Failed to start git: " \o proc.spawnError)
  ELSE IF proc.killed
  THEN Rejected("TIMEOUT: Command timed out. Check your network connection.")
  ELSE IF proc.signal # ""
  THEN Rejected("Process killed by signal: " \o proc.signal)
  ELSE IF proc.code # 0
  THEN Rejected(IF trim(proc.stderr) # "" THEN trim(proc.stderr)
                ELSE "Git exited with code " \o ToString(proc.code))
  ELSE Resolved(trim(proc.stdout))

\* runGitStream: the 'error' and 'close' handlers; resolves with output
runGitStream(proc) ==
  IF proc.spawnError # ""
  THEN Rejected("Failed to start git: " \o proc.spawnError)
  ELSE LET stdout == trim(proc.stdout)
           stderr == trim(proc.stderr)
       IN  IF proc.killed
           THEN Rejected("TIMEOUT: Command timed out. Check your network connection.")
           ELSE IF proc.signal # ""
           THEN Rejected("Process killed by signal: " \o proc.signal)
           ELSE IF proc.code # 0
           THEN Rejected(IF stderr # "" THEN stderr
                         ELSE "Git exited with code " \o ToString(proc.code))
           ELSE Resolved(IF stdout # "" THEN stdout ELSE stderr)

NoRefnameText ==
  "error: The destination you provided is not a full refname\nerror: failed to push some refs\n"

\* git push --set-upstream origin <branch> --progress as a streamed child;
\* git refuses HEAD as the branch of a detached HEAD
StreamPushProcs(r) ==
  {StreamTimedOut, StreamSignalled("SIGKILL"), StreamSpawnError("spawn git EAGAIN")}
    \cup IF ~HasOrigin(r) THEN {StreamExit(128, "", NoOriginText)}
         ELSE IF r.branch = "" THEN {StreamExit(1, "", NoRefnameText)}
         ELSE {StreamExit(0, "",
                 "To https://example.com/repo.git\n * [new branch] main -> main\n"),
               StreamExit(0, "", ""), StreamExit(1, "", "")}
                \cup {StreamExit(1, "", t) : t \in PushFailTexts}

\* the call, git remote and the check for origin
PushStreamRemote ==
  /\ pc = "idle"
  /\ \E r \in Repos : \E p \in GitRemoteProcs(r) :
       LET s == runGit(p, 5000)
           remotes == catchValue(s, Str(""))
       IN  /\ repo' = r
           /\ handler' = "pushStream"
           /\ cmds' = <<Ran("execFile", "git remote", s)>>
           /\ IF Falsy(remotes) \/ ~includes(remotes.s, "origin")
              THEN Return([success |-> FALSE,
                           error |-> "No remote repository configured. Add a remote first.",
                           errorType |-> "NO_REMOTE"])
              ELSE pc' = "pushStream_branch" /\ UNCHANGED ret
  /\ UNCHANGED <<currentBranch, result, frags, message, errorType, commitProc, worktree, runnerVars, registryVars, uiVars, updaterVars>>

\* git rev-parse --abbrev-ref HEAD with .catch(() => 'HEAD')
PushStreamBranch ==
  /\ pc = "pushStream_branch"
  /\ \E p \in RevParseProcs(repo) :
       LET s == runGit(p, 5000)
           branch == catchValue(s, Str("HEAD"))
       IN  /\ cmds' = Append(cmds, Ran("execFile", "git rev-parse --abbrev-ref HEAD", s))
           /\ currentBranch' = branch.s
  /\ pc' = "pushStream_push"
  /\ UNCHANGED <<repo, handler, result, ret, frags, message, errorType, commitProc, worktree, runnerVars, registryVars, uiVars, updaterVars>>

\* the single streamed push and the return
PushStreamPush ==
  /\ pc = "pushStream_push"
  /\ \E p \in StreamPushProcs(repo) :
       LET s == runGitStream(p)
           line == "git push --set-upstream origin " \o currentBranch \o " --progress"
       IN  /\ cmds' = Append(cmds, Ran("spawn", line, s))
           /\ IF s.ok
              THEN Return([success |-> TRUE,
                           result |-> IF s.value # "" THEN s.value
                                      ELSE "Push completed successfully",
                           branch |-> currentBranch])
              ELSE Return(ClassifiedFailure(s.value))
  /\ UNCHANGED <<repo, handler, currentBranch, result, frags, message, errorType, commitProc, worktree, runnerVars, registryVars, uiVars, updaterVars>>

\* ipcMain.handle('git:pull'), the streaming revision (part_001, first revision)

NoTrackingText ==
  "There is no tracking information for the current branch.\n"

\* git pull --no-rebase --progress as a streamed child
StreamPullProcs(r) ==
  {StreamTimedOut, StreamSignalled("SIGKILL"), StreamSpawnError("spawn git EAGAIN")}
    \cup IF ~HasOrigin(r) THEN {StreamExit(1, "", NoTrackingText)}
         ELSE {StreamExit(0, "Already up to date.\n", ""),
               StreamExit(0, "", "From https://example.com/repo\n"),
               StreamExit(0, "", ""), StreamExit(1, "", "")}
                \cup {StreamExit(1, "", t) : t \in PullFailTexts}

\* the call, the single streamed pull and the return
PullStream ==
  /\ pc = "idle"
  /\ \E r \in Repos : \E p \in StreamPullProcs(r) :
       LET s == runGitStream(p)
       IN  /\ repo' = r
           /\ handler' = "pullStream"
           /\ cmds' = <<Ran("spawn", "git pull --no-rebase --progress", s)>>
           /\ IF s.ok
              THEN Return([success |-> TRUE,
                           result |-> IF s.value # "" THEN s.value
                                      ELSE "Pull completed"])
              ELSE Return(ClassifiedFailure(s.value))
  /\ UNCHANGED <<currentBranch, result, frags, message, errorType, commitProc, worktree, runnerVars, registryVars, uiVars, updaterVars>>

-----------------------------------------------------------------------------
\* The process runners step by step: runGitStream (part_001) and the spawn
\* revision of executeGitCommand (main-process-handlers.js, first revision).
\* One runner call is in flight at a time.  The child process, the two timers
\* and the stream events are steps of their own, in any order the event loop
\* and the operating system allow.

\* the data events of one call that the model follows
MaxChunks == 9

MAX_BUFFER == 512 * 1024

\* The child git process.  state: "running", "failed" (it could not be
\* started), "exited" (gone, 'close' not emitted yet), "closed".  killed is
\* subprocess.killed of Node: kill() has delivered a signal.  exits: the child
\* comes to an end by itself (FALSE: it waits for input or the network for
\* good).  bulk: it writes large output.  endedBy: "self", "runner" (a signal
\* of kill()), "outside" (a signal from elsewhere), "overflow" (exec ended it
\* on maxBuffer).
Child(exits, ignoresSIGTERM, bulk) ==
  [state |-> "running", killed |-> FALSE, code |-> 0, signal |-> "",
   exits |-> exits, ignoresSIGTERM |-> ignoresSIGTERM, bulk |-> bulk,
   endedBy |-> ""]

Children == {Child(e, i, b) : e \in BOOLEAN, i \in BOOLEAN, b \in BOOLEAN}

FailedChild == [Child(FALSE, FALSE, FALSE) EXCEPT !.state = "failed"]

\* a 'data' event: len bytes; text is what toString() gives, one "#" standing
\* for the bytes of a large chunk
Chunk(len, text) == [len |-> len, text |-> text]

TextChunk(text) == Chunk(Len(text), text)

StdoutChunks(child) ==
  IF child.bulk THEN {Chunk(65536, "#"), Chunk(4096, "#")}
  ELSE {TextChunk("Already up to date.\n")}

StderrChunks(child) ==
  IF child.bulk THEN {Chunk(65536, "#"), Chunk(4096, "#")}
  ELSE {TextChunk("fatal: bad object HEAD\n"), TextChunk("\n")}

\* a child that is not bulk writes each stream in one chunk
MayWrite(size) == written < MaxChunks /\ (gitProcess.bulk \/ size = 0)

\* subprocess.kill(sig): the signal is delivered to a child that is there
kill(sig) ==
  IF gitProcess.state = "running"
  THEN /\ gitProcess' = [gitProcess EXCEPT !.killed = TRUE]
       /\ signals' = Append(signals, sig)
  ELSE UNCHANGED <<gitProcess, signals>>

Delivered(sig) == \E i \in 1..Len(signals) : signals[i] = sig

\* the delivered signals that end this child
LethalSignals ==
  {sig \in {"SIGTERM", "SIGKILL"} :
     Delivered(sig) /\ (sig = "SIGKILL" \/ ~gitProcess.ignoresSIGTERM)}

\* the child exits by itself
ChildExits ==
  /\ gitProcess.state = "running"
  /\ gitProcess.exits
  /\ \E code \in {0, 1} :
       gitProcess' = [gitProcess EXCEPT !.state = "exited", !.code = code,
                                        !.endedBy = "self"]
  /\ UNCHANGED <<runner, killed, timeoutId, killTimer, signals, stdoutSize,
                 stderrSize, stdoutChunks, stderrChunks, written, promise>>
  /\ UNCHANGED <<handlerVars, registryVars, uiVars, updaterVars>>

\* a signal of kill() ends the child
ChildDies ==
  /\ gitProcess.state = "running"
  /\ \E sig \in LethalSignals :
       gitProcess' = [gitProcess EXCEPT !.state = "exited", !.code = NoCode,
                                        !.signal = sig, !.endedBy = "runner"]
  /\ UNCHANGED <<runner, killed, timeoutId, killTimer, signals, stdoutSize,
                 stderrSize, stdoutChunks, stderrChunks, written, promise>>
  /\ UNCHANGED <<handlerVars, registryVars, uiVars, updaterVars>>

\* a signal from elsewhere (the user, the system) ends the child
ChildSignalled ==
  /\ gitProcess.state = "running"
  /\ \E sig \in {"SIGTERM", "SIGKILL"} :
       /\ sig = "SIGKILL" \/ ~gitProcess.ignoresSIGTERM
       /\ gitProcess' = [gitProcess EXCEPT !.state = "exited", !.code = NoCode,
                                           !.signal = sig, !.endedBy = "outside"]
  /\ UNCHANGED <<runner, killed, timeoutId, killTimer, signals, stdoutSize,
                 stderrSize, stdoutChunks, stderrChunks, written, promise>>
  /\ UNCHANGED <<handlerVars, registryVars, uiVars, updaterVars>>

\* runGitStream: spawn and setTimeout (timeout defaults to 60000)
StreamSpawn ==
  /\ runner = "none"
  /\ pc = "idle"
  /\ runner' = "runGitStream"
  /\ gitProcess' \in Children \cup {FailedChild}
  /\ timeoutId' = "armed"
  /\ UNCHANGED <<killed, killTimer, signals, stdoutSize, stderrSize,
                 stdoutChunks, stderrChunks, written, promise>>
  /\ UNCHANGED <<handlerVars, registryVars, uiVars, updaterVars>>

\* runGitStream: gitProcess.stdout.on('data')
StreamStdoutData ==
  /\ runner = "runGitStream"
  /\ gitProcess.state = "running"
  /\ MayWrite(stdoutSize)
  /\ \E chunk \in StdoutChunks(gitProcess) :
       IF stdoutSize < MAX_BUFFER
       THEN /\ stdoutChunks' = stdoutChunks \o chunk.text
            /\ stdoutSize' = stdoutSize + chunk.len
       ELSE UNCHANGED <<stdoutChunks, stdoutSize>>
  /\ written' = written + 1
  /\ UNCHANGED <<runner, gitProcess, killed, timeoutId, killTimer, signals,
                 stderrSize, stderrChunks, promise>>
  /\ UNCHANGED <<handlerVars, registryVars, uiVars, updaterVars>>

\* runGitStream: gitProcess.stderr.on('data')
StreamStderrData ==
  /\ runner = "runGitStream"
  /\ gitProcess.state = "running"
  /\ MayWrite(stderrSize)
  /\ \E chunk \in StderrChunks(gitProcess) :
       IF stderrSize < MAX_BUFFER
       THEN /\ stderrChunks' = stderrChunks \o chunk.text
            /\ stderrSize' = stderrSize + chunk.len
       ELSE UNCHANGED <<stderrChunks, stderrSize>>
  /\ written' = written + 1
  /\ UNCHANGED <<runner, gitProcess, killed, timeoutId, killTimer, signals,
                 stdoutSize, stdoutChunks, promise>>
  /\ UNCHANGED <<handlerVars, registryVars, uiVars, updaterVars>>

\* runGitStream: the timeout callback
StreamTimeout ==
  /\ runner = "runGitStream"
  /\ timeoutId = "armed"
  /\ timeoutId' = "fired"
  /\ killed' = TRUE
  /\ kill("SIGTERM")
  /\ killTimer' = "armed"
  /\ UNCHANGED <<runner, stdoutSize, stderrSize, stdoutChunks, stderrChunks,
                 written, promise>>
  /\ UNCHANGED <<handlerVars, registryVars, uiVars, updaterVars>>

\* runGitStream: the callback of the 5 s timer
StreamForceKill ==
  /\ runner = "runGitStream"
  /\ killTimer = "armed"
  /\ killTimer' = "fired"
  /\ IF ~gitProcess.killed THEN kill("SIGKILL")
     ELSE UNCHANGED <<gitProcess, signals>>
  /\ UNCHANGED <<runner, killed, timeoutId, stdoutSize, stderrSize,
                 stdoutChunks, stderrChunks, written, promise>>
  /\ UNCHANGED <<handlerVars, registryVars, uiVars, updaterVars>>

clearTimeout(id) == IF id = "armed" THEN "cleared" ELSE id

\* runGitStream: gitProcess.on('error')
StreamError ==
  /\ runner = "runGitStream"
  /\ gitProcess.state = "failed"
  /\ promise = Pending
  /\ timeoutId' = clearTimeout(timeoutId)
  /\ promise' = runGitStream(StreamSpawnError("spawn git EAGAIN"))
  /\ UNCHANGED <<runner, gitProcess, killed, killTimer, signals, stdoutSize,
                 stderrSize, stdoutChunks, stderrChunks, written>>
  /\ UNCHANGED <<handlerVars, registryVars, uiVars, updaterVars>>

\* runGitStream: gitProcess.on('close')
StreamClose ==
  /\ runner = "runGitStream"
  /\ gitProcess.state = "exited"
  /\ gitProcess' = [gitProcess EXCEPT !.state = "closed"]
  /\ timeoutId' = clearTimeout(timeoutId)
  /\ promise' = runGitStream([spawnError |-> "", killed |-> killed,
                              signal |-> gitProcess.signal,
                              code |-> gitProcess.code,
                              stdout |-> stdoutChunks, stderr |-> stderrChunks])
  /\ UNCHANGED <<runner, killed, killTimer, signals, stdoutSize, stderrSize,
                 stdoutChunks, stderrChunks, written>>
  /\ UNCHANGED <<handlerVars, registryVars, uiVars, updaterVars>>

\* executeGitCommand, the spawn revision: what 'close' settles the promise with
executeGitCommandSpawn(proc) ==
  IF proc.killed
  THEN Rejected("Command timed out")
  ELSE IF proc.code # 0
  THEN Rejected(IF proc.stderr # "" THEN proc.stderr
                ELSE "Git exited with code "
                       \o (IF proc.code = NoCode THEN "null"
                           ELSE ToString(proc.code)))
  ELSE Resolved(trim(proc.stdout))

\* executeGitCommand, the spawn revision: spawn and setTimeout
SpawnRun ==
  /\ runner = "none"
  /\ pc = "idle"
  /\ runner' = "executeGitCommandSpawn"
  /\ gitProcess' \in Children \cup {FailedChild}
  /\ timeoutId' = "armed"
  /\ UNCHANGED <<killed, killTimer, signals, stdoutSize, stderrSize,
                 stdoutChunks, stderrChunks, written, promise>>
  /\ UNCHANGED <<handlerVars, registryVars, uiVars, updaterVars>>

\* executeGitCommand, the spawn revision: proc.stdout.on('data')
SpawnStdoutData ==
  /\ runner = "executeGitCommandSpawn"
  /\ gitProcess.state = "running"
  /\ MayWrite(Len(stdoutChunks))
  /\ \E chunk \in StdoutChunks(gitProcess) :
       stdoutChunks' = stdoutChunks \o chunk.text
  /\ written' = written + 1
  /\ UNCHANGED <<runner, gitProcess, killed, timeoutId, killTimer, signals,
                 stdoutSize, stderrSize, stderrChunks, promise>>
  /\ UNCHANGED <<handlerVars, registryVars, uiVars, updaterVars>>

\* executeGitCommand, the spawn revision: proc.stderr.on('data')
SpawnStderrData ==
  /\ runner = "executeGitCommandSpawn"
  /\ gitProcess.state = "running"
  /\ MayWrite(Len(stderrChunks))
  /\ \E chunk \in StderrChunks(gitProcess) :
       stderrChunks' = stderrChunks \o chunk.text
  /\ written' = written + 1
  /\ UNCHANGED <<runner, gitProcess, killed, timeoutId, killTimer, signals,
                 stdoutSize, stderrSize, stdoutChunks, promise>>
  /\ UNCHANGED <<handlerVars, registryVars, uiVars, updaterVars>>

\* executeGitCommand, the spawn revision: the timeout callback
SpawnTimeout ==
  /\ runner = "executeGitCommandSpawn"
  /\ timeoutId = "armed"
  /\ timeoutId' = "fired"
  /\ killed' = TRUE
  /\ kill("SIGTERM")
  /\ UNCHANGED <<runner, killTimer, stdoutSize, stderrSize, stdoutChunks,
                 stderrChunks, written, promise>>
  /\ UNCHANGED <<handlerVars, registryVars, uiVars, updaterVars>>

\* executeGitCommand, the spawn revision: proc.on('error')
SpawnError ==
  /\ runner = "executeGitCommandSpawn"
  /\ gitProcess.state = "failed"
  /\ promise = Pending
  /\ timeoutId' = clearTimeout(timeoutId)
  /\ promise' = Rejected("spawn git EAGAIN")
  /\ UNCHANGED <<runner, gitProcess, killed, killTimer, signals, stdoutSize,
                 stderrSize, stdoutChunks, stderrChunks, written>>
  /\ UNCHANGED <<handlerVars, registryVars, uiVars, updaterVars>>

\* executeGitCommand, the spawn revision: proc.on('close')
SpawnClose ==
  /\ runner = "executeGitCommandSpawn"
  /\ gitProcess.state = "exited"
  /\ gitProcess' = [gitProcess EXCEPT !.state = "closed"]
  /\ timeoutId' = clearTimeout(timeoutId)
  /\ promise' = executeGitCommandSpawn([killed |-> killed,
                                        code |-> gitProcess.code,
                                        stdout |-> stdoutChunks,
                                        stderr |-> stderrChunks])
  /\ UNCHANGED <<runner, killed, killTimer, signals, stdoutSize, stderrSize,
                 stdoutChunks, stderrChunks, written>>
  /\ UNCHANGED <<handlerVars, registryVars, uiVars, updaterVars>>

-----------------------------------------------------------------------------
\* ipcMain.handle('git:commit') in three revisions: commitV1 and commitV2
\* (main-process-handlers.js, first and second revision) build a command
\* string that a shell parses; commitP1 (part_001) hands runGit the arguments.

\* String.prototype.replace(/c/g, rep) for a single character c
RECURSIVE replaceAll(_, _, _)
replaceAll(s, c, rep) ==
  IF s = "" THEN ""
  ELSE (IF Head(s) = c THEN rep ELSE Head(s)) \o replaceAll(Tail(s), c, rep)

\* String.prototype.split(' ')
RECURSIVE splitSpace(_, _)
splitSpace(s, word) ==
  IF s = "" THEN <<word>>
  ELSE IF Head(s) = " " THEN <<word>> \o splitSpace(Tail(s), "")
  ELSE splitSpace(Tail(s), word \o Head(s))

\* Array.prototype.join(' ')
RECURSIVE joinSpace(_)
joinSpace(words) ==
  IF words = <<>> THEN ""
  ELSE IF Len(words) = 1 THEN words[1]
  ELSE Head(words) \o " " \o joinSpace(Tail(words))

\* What /bin/sh -c does with a command line: words are split at spaces; in
\* double quotes a backslash protects $, the back quote, " and \ only; $NAME
\* is replaced by the value of the variable and a command between back quotes
\* by the output of the command;
\* a quote or back quote left open is a syntax error.
Digits == "0123456789"

Backslash == SubSeq("\\ ", 1, 1)

\* A TLA+ string cannot hold the back quote character: the strings of this
\* module write ^ for it.
Backquote == "^"

IsNameChar(c) ==
  \E i \in 1..Len(UpperCaseLetters \o LowerCaseLetters \o Digits \o "_") :
    SubSeq(UpperCaseLetters \o LowerCaseLetters \o Digits \o "_", i, i) = c

IsDigit(c) == \E i \in 1..Len(Digits) : SubSeq(Digits, i, i) = c

\* the name after a $: one digit (a positional parameter) or the longest run
\* of name characters
RECURSIVE takeName(_)
takeName(s) ==
  IF s = "" \/ ~IsNameChar(Head(s)) THEN ""
  ELSE Head(s) \o takeName(Tail(s))

ParameterName(s) ==
  IF s # "" /\ IsDigit(Head(s)) THEN Head(s) ELSE takeName(s)

\* the environment of the application
ShellVariable(name) == IF name = "HOME" THEN "/home/user" ELSE ""

\* what a command between back quotes prints
CommandOutput(command) == IF command = "id" THEN "uid=1000(user)" ELSE ""

\* the position of the first back quote not behind a backslash, 0 if none
RECURSIVE closingBackquote(_, _)
closingBackquote(s, i) ==
  IF i > Len(s) THEN 0
  ELSE IF SubSeq(s, i, i) = Backslash THEN closingBackquote(s, i + 2)
  ELSE IF SubSeq(s, i, i) = Backquote THEN i
  ELSE closingBackquote(s, i + 1)

SyntaxError == [ok |-> FALSE, words |-> <<>>]

RECURSIVE shWords(_, _, _, _, _)
shWords(rest, quoted, word, inWord, words) ==
  IF rest = ""
  THEN IF quoted THEN SyntaxError
       ELSE [ok |-> TRUE,
             words |-> IF inWord THEN Append(words, word) ELSE words]
  ELSE LET c == Head(rest)
           r == Tail(rest)
       IN  IF c = "\""
           THEN shWords(r, ~quoted, word, TRUE, words)
           ELSE IF c = Backslash
           THEN IF r = "" THEN shWords(r, quoted, word \o c, TRUE, words)
                ELSE IF ~quoted \/ Head(r) \in {"$", Backquote, "\"", Backslash}
                THEN shWords(Tail(r), quoted, word \o Head(r), TRUE, words)
                ELSE shWords(Tail(r), quoted, word \o c \o Head(r), TRUE, words)
           ELSE IF c = "$"
           THEN LET name == ParameterName(r)
                IN  IF name = ""
                    THEN shWords(r, quoted, word \o c, TRUE, words)
                    ELSE shWords(SubSeq(r, Len(name) + 1, Len(r)), quoted,
                                 word \o ShellVariable(name), TRUE, words)
           ELSE IF c = Backquote
           THEN LET k == closingBackquote(r, 1)
                IN  IF k = 0 THEN SyntaxError
                    ELSE shWords(SubSeq(r, k + 1, Len(r)), quoted,
                                 word \o CommandOutput(SubSeq(r, 1, k - 1)),
                                 TRUE, words)
           ELSE IF c = " " /\ ~quoted
           THEN shWords(r, quoted, "",  FALSE,
                        IF inWord THEN Append(words, word) ELSE words)
           ELSE shWords(r, quoted, word \o c, TRUE, words)

\* the argument vector a shell makes of a command line
sh(commandLine) == shWords(commandLine, FALSE, "", FALSE, <<>>)

\* spawn(file, args, {shell: true}): file and args joined by spaces, run by
\* the shell (the spawn revision of executeGitCommand splits the command at
\* spaces first)
spawnShell(command) ==
  LET parts == splitSpace(command, "")
      gitCommand == Head(parts)
      args == Tail(parts)
  IN  sh(joinSpace(<<gitCommand>> \o args))

\* the commit messages a user may enter
CommitMessages ==
  {"fix typo",
   "say \"hi\"",
   "cost $HOME",
   "price $5",
   "run ^id^",
   "dir C:" \o Backslash,
   "a\\\"b",
   "pay \\$5"}

\* What becomes of the process of a commit.  git has its arguments in argv;
\* it writes 'nothing to commit' to stdout (NothingStaged), and the handlers
\* look for it in the error text, where a hook may put it
\* (NothingToCommitOnStderr).
Outcome(code, out, errText) ==
  [timedOut |-> FALSE, code |-> code, stdout |-> out, stderr |-> errText]

NothingStaged ==
  Outcome(1, "On branch main\nnothing to commit, working tree clean\n", "")

NothingToCommitOnStderr ==
  Outcome(1, "", "nothing to commit, working tree clean\n")

CommitTimedOut ==
  [timedOut |-> TRUE, code |-> NoCode, stdout |-> "", stderr |-> ""]

CommitOutcomes(parsed) ==
  IF ~parsed.ok
  THEN {Outcome(2, "", "/bin/sh: 1: Syntax error: Unterminated quoted string\n")}
  ELSE IF Len(parsed.words) # 4
  THEN {Outcome(1, "", "error: pathspec did not match any file(s) known to git\n")}
  ELSE {Outcome(0, "[main 1a2b3c4] " \o parsed.words[4] \o "\n", ""),
        NothingStaged, NothingToCommitOnStderr, CommitTimedOut,
        Outcome(128, "", "fatal: unable to auto-detect email address\n")}

\* what exec and execFile hand to their callback for an outcome
ExecCallback(commandLine, o) ==
  IF o.timedOut THEN ProcTimedOut
  ELSE [error |-> o.code # 0, killed |-> FALSE, signal |-> "",
        message |-> IF o.code # 0
                    THEN "Command failed: " \o commandLine \o "\n" \o o.stderr
                    ELSE "",
        stdout |-> o.stdout, stderr |-> o.stderr]

\* the git process of the call: started unless the shell gave up
CommitProc(parsed, o) ==
  [started |-> parsed.ok, argv |-> parsed.words, timedOut |-> o.timedOut,
   code |-> o.code, stdout |-> o.stdout, stderr |-> o.stderr]

CommitRepos == {r \in Repos : r.remotes = <<"origin">>}

NoStagedChangesMessage == "No changes staged for commit. Use git add first."

\* main-process-handlers.js, first revision
CommitV1 ==
  /\ pc = "idle"
  /\ \E r \in CommitRepos, m \in CommitMessages :
       LET safeMessage == replaceAll(m, "\"", "\\\"")
           command == "git commit -m \"" \o safeMessage \o "\""
           parsed == spawnShell(command)
       IN  \E o \in CommitOutcomes(parsed) :
             LET s == executeGitCommandSpawn([killed |-> o.timedOut,
                                              code |-> o.code,
                                              stdout |-> o.stdout,
                                              stderr |-> o.stderr])
             IN  /\ repo' = r
                 /\ message' = m
                 /\ commitProc' = CommitProc(parsed, o)
                 /\ cmds' = <<Ran("spawn shell", command, s)>>
                 /\ IF s.ok
                    THEN Return([success |-> TRUE,
                                 result |-> IF s.value # "" THEN s.value
                                            ELSE "Commit completed"])
                    ELSE Return([success |-> FALSE, error |-> s.value])
  /\ handler' = "commitV1"
  /\ UNCHANGED <<currentBranch, result, frags, errorType, worktree, runnerVars, registryVars, uiVars, updaterVars>>

\* main-process-handlers.js, second revision
CommitV2 ==
  /\ pc = "idle"
  /\ \E r \in CommitRepos, m \in CommitMessages :
       LET escapedMessage ==
             replaceAll(replaceAll(replaceAll(m, "\"", "\\\""), Backquote,
                                   Backslash \o Backquote),
                        "$", "\\$")
           command == "git commit -m \"" \o escapedMessage \o "\""
           parsed == sh(command)
       IN  \E o \in CommitOutcomes(parsed) :
             LET s == executeGitCommand(ExecCallback(command, o), 10000)
                 errorMsg == toLowerCase(s.value)
             IN  /\ repo' = r
                 /\ message' = m
                 /\ commitProc' = CommitProc(parsed, o)
                 /\ cmds' = <<Ran("exec", command, s)>>
                 /\ IF s.ok
                    THEN Return([success |-> TRUE, result |-> s.value])
                    ELSE IF includes(errorMsg, "nothing to commit")
                    THEN Return([success |-> FALSE,
                                 error |-> NoStagedChangesMessage])
                    ELSE IF includes(errorMsg, "timed out")
                    THEN Return([success |-> FALSE,
                                 error |-> "Commit operation timed out."])
                    ELSE Return([success |-> FALSE, error |-> s.value])
  /\ handler' = "commitV2"
  /\ UNCHANGED <<currentBranch, result, frags, errorType, worktree, runnerVars, registryVars, uiVars, updaterVars>>

\* part_001, first revision: runGit(['commit', '-m', message])
CommitP1 ==
  /\ pc = "idle"
  /\ \E r \in CommitRepos, m \in CommitMessages :
       LET args == <<"commit", "-m", m>>
           parsed == [ok |-> TRUE, words |-> <<"git">> \o args]
       IN  \E o \in CommitOutcomes(parsed) :
             LET s == runGit(ExecCallback(joinSpace(parsed.words), o), 10000)
             IN  /\ repo' = r
                 /\ message' = m
                 /\ commitProc' = CommitProc(parsed, o)
                 /\ cmds' = <<Ran("execFile", joinSpace(parsed.words), s)>>
                 /\ IF s.ok
                    THEN Return([success |-> TRUE,
                                 result |-> IF s.value # "" THEN s.value
                                            ELSE "Commit completed"])
                    ELSE Return([success |-> FALSE, error |-> s.value])
  /\ handler' = "commitP1"
  /\ UNCHANGED <<currentBranch, result, frags, errorType, worktree, runnerVars, registryVars, uiVars, updaterVars>>

\* What exec hands to its callback beyond ProcOK, ProcFail and ProcTimedOut.
\* A signal from elsewhere ended the child: error.killed is false.
ProcSignalled(sig) ==
  [error |-> TRUE, killed |-> FALSE, signal |-> sig, message |-> "Command failed",
   stdout |-> "", stderr |-> ""]

\* exec ended the child because stdout went past maxBuffer: the error has
\* neither killed nor signal
ProcOverflow ==
  [error |-> TRUE, killed |-> FALSE, signal |-> "",
   message |-> "stdout maxBuffer length exceeded", stdout |-> "#", stderr |-> ""]

\* the timer of exec fired, the child ignored SIGTERM and exited later by
\* itself: error.killed is true, error.signal is null
ProcLateExit ==
  [error |-> TRUE, killed |-> TRUE, signal |-> "", message |-> "Command failed",
   stdout |-> "", stderr |-> "fatal: bad object HEAD\n"]

\* the outcomes of a child of exec and what ended the child
ExecOutcomes ==
  {<<ProcOK("Already up to date.\n"), "self">>,
   <<ProcFail("fatal: bad object HEAD\n"), "self">>,
   <<ProcFail(""), "self">>,
   <<ProcTimedOut, "runner">>,
   <<ProcSignalled("SIGTERM"), "outside">>,
   <<ProcSignalled("SIGKILL"), "outside">>,
   <<ProcOverflow, "overflow">>,
   <<ProcLateExit, "self">>}

\* executeGitCommand, the exec revision: the call and the callback of exec
ExecRun ==
  /\ runner = "none"
  /\ pc = "idle"
  /\ runner' = "executeGitCommand"
  /\ \E o \in ExecOutcomes :
       /\ gitProcess' = [NoProcess EXCEPT !.state = "closed",
                                          !.killed = o[1].killed,
                                          !.signal = o[1].signal,
                                          !.exits = (o[2] = "self"),
                                          !.endedBy = o[2]]
       /\ promise' = executeGitCommand(o[1], 30000)
       /\ stdoutChunks' = o[1].stdout
       /\ stderrChunks' = o[1].stderr
  /\ UNCHANGED <<killed, timeoutId, killTimer, signals, stdoutSize, stderrSize,
                 written>>
  /\ UNCHANGED <<handlerVars, registryVars, uiVars, updaterVars>>

\* the caller has the settled promise and no timer is left
RunnerDone ==
  /\ runner # "none"
  /\ promise # Pending
  /\ timeoutId # "armed"
  /\ killTimer # "armed"
  /\ runner' = "none"
  /\ gitProcess' = NoProcess
  /\ killed' = FALSE
  /\ timeoutId' = "none"
  /\ killTimer' = "none"
  /\ signals' = <<>>
  /\ stdoutSize' = 0
  /\ stderrSize' = 0
  /\ stdoutChunks' = ""
  /\ stderrChunks' = ""
  /\ written' = 0
  /\ promise' = Pending
  /\ UNCHANGED <<handlerVars, registryVars, uiVars, updaterVars>>

-----------------------------------------------------------------------------
\* ipcMain.handle('git:status') and ipcMain.handle('git:log')
\* (main-process-handlers.js first revision, part_001 first revision)

\* String.prototype.indexOf for a separator of one character (0: not found)
RECURSIVE indexOf(_, _, _)
indexOf(s, sep, i) ==
  IF i > Len(s) THEN 0
  ELSE IF SubSeq(s, i, i) = sep THEN i
  ELSE indexOf(s, sep, i + 1)

\* String.prototype.split for a separator of one character
RECURSIVE split(_, _)
split(s, sep) ==
  LET i == indexOf(s, sep, 1)
  IN  IF i = 0 THEN <<s>>
      ELSE <<SubSeq(s, 1, i - 1)>> \o split(SubSeq(s, i + 1, Len(s)), sep)

\* String.prototype.substring(start, end) and substring(start)
substring(s, start, end) ==
  SubSeq(s, start + 1, IF end < Len(s) THEN end ELSE Len(s))

substringFrom(s, start) == SubSeq(s, start + 1, Len(s))

\* .filter(line => line.trim())
nonBlank(lines) == SelectSeq(lines, LAMBDA line : trim(line) # "")

\* the tests on the status code, the first match kept
statusTextFirstMatch(status) ==
  IF status = "??" THEN "untracked"
  ELSE IF includes(status, "A") THEN "added"
  ELSE IF includes(status, "D") THEN "deleted"
  ELSE "modified"

\* the tests on the status code, in the order of the code: each one that
\* matches overwrites statusText
statusText(status) ==
  LET initial == "modified"
      afterA == IF status = "A" \/ includes(status, "A") THEN "added" ELSE initial
      afterD == IF status = "D" \/ includes(status, "D") THEN "deleted" ELSE afterA
      afterM == IF status = "M" \/ includes(status, "M") THEN "modified" ELSE afterD
  IN  IF status = "??" THEN "untracked" ELSE afterM

\* the callback of .map in the status handlers
parseStatusLine(line) ==
  LET status == trim(substring(line, 0, 2))
      file == trim(substringFrom(line, 3))
  IN  [file |-> file, status |-> statusText(status)]

\* statusOutput.split('\n').filter(...).map(...)
parseStatus(statusOutput) ==
  LET lines == nonBlank(split(statusOutput, "\n"))
  IN  [i \in 1..Len(lines) |-> parseStatusLine(lines[i])]

\* What git status --porcelain reports: per changed path the two status
\* columns XY, a space, the path; one line each, in path order.
StatusCodes == {" M", "M ", "A ", " D", "??", "AM", "AD", "MD", "R "}

StatusPaths == <<"a.txt", "c", "lib/b.js">>

Clean == "clean"

\* one state of the working tree: a code, or Clean, for each path
TreeStates == [1..Len(StatusPaths) -> StatusCodes \cup {Clean}]

RECURSIVE changesFrom(_, _)
changesFrom(tree, i) ==
  IF i > Len(StatusPaths) THEN <<>>
  ELSE (IF tree[i] = Clean THEN <<>>
        ELSE <<[code |-> tree[i], path |-> StatusPaths[i]]>>)
       \o changesFrom(tree, i + 1)

StatusWorktrees ==
  {[changes |-> changesFrom(t, 1), commits |-> <<>>] : t \in TreeStates}

RECURSIVE porcelain(_)
porcelain(changes) ==
  IF changes = <<>> THEN ""
  ELSE Head(changes).code \o " " \o Head(changes).path \o "\n"
       \o porcelain(Tail(changes))

NotARepositoryText ==
  "fatal: not a git repository (or any of the parent directories): .git\n"

\* how the process of git status ends
StatusOutcomes(w) ==
  {Outcome(0, porcelain(w.changes), ""),
   Outcome(128, "", NotARepositoryText),
   CommitTimedOut}

\* the body of the two status handlers after the runner has settled
statusEntries(s) ==
  IF ~s.ok THEN <<>>
  ELSE IF s.value = "" THEN <<>>
  ELSE parseStatus(s.value)

\* main-process-handlers.js, first revision
StatusV1 ==
  /\ pc = "idle"
  /\ \E w \in StatusWorktrees :
       \E o \in StatusOutcomes(w) :
         LET command == "git status --porcelain"
             s == executeGitCommandSpawn([killed |-> o.timedOut,
                                          code |-> o.code,
                                          stdout |-> o.stdout,
                                          stderr |-> o.stderr])
         IN  /\ worktree' = w
             /\ cmds' = <<Ran("spawn shell", command, s)>>
             /\ Return(statusEntries(s))
  /\ handler' = "statusV1"
  /\ UNCHANGED <<repo, currentBranch, result, frags, message, errorType,
                 commitProc, runnerVars, registryVars, uiVars, updaterVars>>

\* part_001, first revision
StatusP1 ==
  /\ pc = "idle"
  /\ \E w \in StatusWorktrees :
       \E o \in StatusOutcomes(w) :
         LET command == "git status --porcelain"
             s == runGit(ExecCallback(command, o), 5000)
         IN  /\ worktree' = w
             /\ cmds' = <<Ran("execFile", command, s)>>
             /\ Return(statusEntries(s))
  /\ handler' = "statusP1"
  /\ UNCHANGED <<repo, currentBranch, result, frags, message, errorType,
                 commitProc, runnerVars, registryVars, uiVars, updaterVars>>

\* What git log --pretty=format:%H|%an|%ad|%s --date=short prints: one line
\* per commit, the four values with '|' between them, no '|' escaped.
LogAuthors == {"Ann", "Lee | Kim"}

LogSubjects == {"fix typo", "a|b", ""}

LogCommits ==
  [hash : {"1a2b3c4"}, author : LogAuthors, date : {"2024-05-01"},
   subject : LogSubjects]

MaxCommits == 2

LogWorktrees ==
  {[changes |-> <<>>, commits |-> c] :
     c \in UNION {[1..n -> LogCommits] : n \in 0..MaxCommits}}

logLine(c) == c.hash \o "|" \o c.author \o "|" \o c.date \o "|" \o c.subject

RECURSIVE logLines(_)
logLines(commits) ==
  IF commits = <<>> THEN ""
  ELSE logLine(Head(commits))
       \o (IF Len(commits) > 1 THEN "\n" ELSE "")
       \o logLines(Tail(commits))

\* how the process of git log ends
LogOutcomes(w) ==
  {Outcome(0, logLines(w.commits), ""),
   Outcome(128, "", NotARepositoryText),
   CommitTimedOut}

Undefined == [type |-> "undefined"]

\* an element of an array destructuring pattern
element(parts, i) == IF i <= Len(parts) THEN parts[i] ELSE Undefined

\* the callback of .map in the log handlers
parseLogLine(line) ==
  LET parts == split(line, "|")
  IN  [hash |-> element(parts, 1), author |-> element(parts, 2),
       date |-> element(parts, 3), message |-> element(parts, 4)]

\* logOutput.split('\n').filter(...).map(...)
parseLog(logOutput) ==
  LET lines == nonBlank(split(logOutput, "\n"))
  IN  [i \in 1..Len(lines) |-> parseLogLine(lines[i])]

\* the body of the two log handlers after the runner has settled
logEntries(s) ==
  IF ~s.ok THEN <<>>
  ELSE IF s.value = "" THEN <<>>
  ELSE parseLog(s.value)

\* main-process-handlers.js, first revision
LogV1 ==
  /\ pc = "idle"
  /\ \E w \in LogWorktrees :
       \E o \in LogOutcomes(w) :
         LET command ==
               "git log --pretty=format:\"%H|%an|%ad|%s\" --date=short -20"
             s == executeGitCommandSpawn([killed |-> o.timedOut,
                                          code |-> o.code,
                                          stdout |-> o.stdout,
                                          stderr |-> o.stderr])
         IN  /\ worktree' = w
             /\ cmds' = <<Ran("spawn shell", command, s)>>
             /\ Return(logEntries(s))
  /\ handler' = "logV1"
  /\ UNCHANGED <<repo, currentBranch, result, frags, message, errorType,
                 commitProc, runnerVars, registryVars, uiVars, updaterVars>>

\* part_001, first revision
LogP1 ==
  /\ pc = "idle"
  /\ \E w \in LogWorktrees :
       \E o \in LogOutcomes(w) :
         LET command == "git log --pretty=format:%H|%an|%ad|%s --date=short -20"
             s == runGit(ExecCallback(command, o), 10000)
         IN  /\ worktree' = w
             /\ cmds' = <<Ran("execFile", command, s)>>
             /\ Return(logEntries(s))
  /\ handler' = "logP1"
  /\ UNCHANGED <<repo, currentBranch, result, frags, message, errorType,
                 commitProc, runnerVars, registryVars, uiVars, updaterVars>>

-----------------------------------------------------------------------------
\* ipcMain.handle('git:add') (main-process-handlers.js second revision)

\* how the process of git add . ends: it prints nothing when it succeeds
AddOutcomes ==
  {Outcome(0, "", ""),
   Outcome(128, "", NotARepositoryText),
   CommitTimedOut}

AddV2 ==
  /\ pc = "idle"
  /\ \E o \in AddOutcomes :
       LET command == "git add ."
           s == executeGitCommand(ExecCallback(command, o), 10000)
       IN  /\ cmds' = <<Ran("exec", command, s)>>
           /\ IF s.ok
              THEN Return([success |-> TRUE])
              ELSE Return([success |-> FALSE, error |-> s.value])
  /\ handler' = "addV2"
  /\ UNCHANGED <<repo, currentBranch, result, frags, message, errorType,
                 commitProc, worktree, runnerVars, registryVars, uiVars, updaterVars>>

-----------------------------------------------------------------------------
\* ipcMain.handle('git:push'), the older revision (part_001, second revision)

\* executeGitCommand(command, cwd) of that revision: exec without a timeout
executeGitCommandNoTimeout(proc) ==
  IF proc.error
  THEN Rejected(IF proc.stderr # "" THEN proc.stderr ELSE proc.message)
  ELSE Resolved(trim(proc.stdout))

\* the handler's promise rejects: invoke() throws in the renderer
Threw(error) == [threw |-> TRUE, error |-> error]

\* reading a let binding outside the block that declares it
ReferenceError(name) == Rejected(name \o " is not defined")

OldRemoteProcs(r) == {ProcOK(joinLines(r.remotes)), ProcFail(NotARepositoryText)}

OldBranchProcs(r) == {ProcOK(r.branch \o "\n"), ProcFail(NotARepositoryText)}

OldPushProcs(r) == PushProcs(r) \ {ProcTimedOut}

OldStatusProcs == {ProcOK(""), ProcOK(" M a.txt\n"), ProcFail(NotARepositoryText)}

\* the upstream retry with its failure left to the caller
PushOldSetUpstreamUncaught(attempt) ==
  IF attempt.ok
  THEN [success |-> TRUE, result |-> attempt.value]
  ELSE Threw(attempt.value)

\* the try around the upstream retry and its catch (setUpstreamError)
PushOldSetUpstream(attempt) ==
  IF attempt.ok
  THEN [success |-> TRUE, result |-> attempt.value]
  ELSE [success |-> FALSE,
        error |-> "Branch has no upstream. Set upstream first or commit changes before pushing."]

\* the outer catch after the status check.  branch is declared with let
\* inside the try block, so the template of the retry command throws a
\* ReferenceError before any process is started.
PushOldCatch(errorMessage) ==
  LET lower == toLowerCase(errorMessage)
  IN  IF includes(lower, "upstream") \/ includes(lower, "set-upstream")
      THEN PushOldSetUpstream(ReferenceError("branch"))
      ELSE IF includes(lower, "rejected") \/ includes(lower, "non-fast-forward")
      THEN [success |-> FALSE,
            error |-> "Push rejected. Remote repository has newer commits. Please pull changes first."]
      ELSE IF includes(lower, "denied") \/ includes(lower, "authentication")
      THEN [success |-> FALSE, error |-> "Push denied. Check your authentication."]
      ELSE [success |-> FALSE, error |-> errorMessage]

\* the call and git remote, in its own try
PushOldRemote ==
  /\ pc = "idle"
  /\ \E r \in Repos : \E p \in OldRemoteProcs(r) :
       LET s == executeGitCommandNoTimeout(p)
       IN  /\ repo' = r
           /\ handler' = "pushOld"
           /\ cmds' = <<Ran("exec", "git remote", s)>>
           /\ IF ~s.ok
              THEN Return([success |-> FALSE,
                           error |-> "No remote repository configured. Add a remote first."])
              ELSE IF s.value = "" \/ ~includes(s.value, "origin")
              THEN Return([success |-> FALSE,
                           error |-> "No remote repository named \"origin\" configured. Add a remote first."])
              ELSE pc' = "pushOld_branch" /\ UNCHANGED ret
  /\ UNCHANGED <<currentBranch, result, frags, message, errorType, commitProc,
                 worktree, runnerVars, registryVars, uiVars, updaterVars>>

\* git branch --show-current, in its own try
PushOldBranch ==
  /\ pc = "pushOld_branch"
  /\ \E p \in OldBranchProcs(repo) :
       LET s == executeGitCommandNoTimeout(p)
       IN  /\ cmds' = Append(cmds, Ran("exec", "git branch --show-current", s))
           /\ IF ~s.ok
              THEN /\ Return([success |-> FALSE,
                              error |-> "Error determining current branch."])
                   /\ UNCHANGED currentBranch
              ELSE IF s.value = "" \/ trim(s.value) = ""
              THEN /\ Return([success |-> FALSE,
                              error |-> "Cannot push from detached HEAD state. Please checkout a branch."])
                   /\ UNCHANGED currentBranch
              ELSE /\ pc' = "pushOld_push"
                   /\ currentBranch' = trim(s.value)
                   /\ UNCHANGED ret
  /\ UNCHANGED <<repo, handler, result, frags, message, errorType, commitProc,
                 worktree, runnerVars, registryVars, uiVars, updaterVars>>

\* git push origin <branch>; its failure goes to the outer catch
PushOldPush ==
  /\ pc = "pushOld_push"
  /\ \E p \in OldPushProcs(repo) :
       LET s == executeGitCommandNoTimeout(p)
       IN  /\ cmds' = Append(cmds, Ran("exec", "git push origin " \o currentBranch, s))
           /\ IF s.ok
              THEN Return([success |-> TRUE, result |-> s.value])
              ELSE pc' = "pushOld_catch" /\ UNCHANGED ret
  /\ UNCHANGED <<repo, handler, currentBranch, result, frags, message, errorType,
                 commitProc, worktree, runnerVars, registryVars, uiVars, updaterVars>>

\* the outer catch: git status --porcelain in its own try, then the tests
\* on the message of the failed push
PushOldStatus ==
  /\ pc = "pushOld_catch"
  /\ \E p \in OldStatusProcs :
       LET s == executeGitCommandNoTimeout(p)
           error == cmds[Len(cmds)].value
       IN  /\ cmds' = Append(cmds, Ran("exec", "git status --porcelain", s))
           /\ IF s.ok /\ s.value # "" /\ trim(s.value) # ""
              THEN Return([success |-> FALSE,
                           error |-> "You have uncommitted changes. Please commit them before pushing."])
              ELSE Return(PushOldCatch(error))
  /\ UNCHANGED <<repo, handler, currentBranch, result, frags, message, errorType,
                 commitProc, worktree, runnerVars, registryVars, uiVars, updaterVars>>

-----------------------------------------------------------------------------
\* The repository registry: loadRepositories, saveRepositories and the
\* handlers repositories:get, repositories:add, repositories:remove
\* (main-process-handlers.js, first revision).  Every await on the file
\* system is a step; calls of different callers interleave between steps.

\* path.basename for POSIX paths without a trailing slash
RECURSIVE basename(_)
basename(p) ==
  LET i == indexOf(p, "/", 1)
  IN  IF i = 0 THEN p ELSE basename(SubSeq(p, i + 1, Len(p)))

\* the directories the user can pick: two with a .git directory, one without
GitRepositories == {"/w/app", "/w/lib"}

RepoPaths == GitRepositories \cup {"/w/doc"}

\* the entry with the name stored as its path
EntryByName(p) == [name |-> basename(p), path |-> basename(p)]

\* { name, path: repoPath }
Entry(p) == [name |-> basename(p), path |-> p]

\* JSON.stringify(repositories, null, 2); no name or path of the model needs
\* an escape
RECURSIVE stringifyEntries(_)
stringifyEntries(repositories) ==
  IF repositories = <<>> THEN ""
  ELSE "  {\n    \"name\": \"" \o Head(repositories).name
       \o "\",\n    \"path\": \"" \o Head(repositories).path \o "\"\n  }"
       \o (IF Len(repositories) > 1 THEN ",\n" ELSE "\n")
       \o stringifyEntries(Tail(repositories))

stringify(repositories) ==
  IF repositories = <<>> THEN "[]"
  ELSE "[\n" \o stringifyEntries(repositories) \o "]"

MaxEntries == 3

\* the arrays of entries a registry text can stand for; an entry outlasts
\* the .git directory it was added for
EntryLists ==
  UNION {[1..n -> {Entry(p) : p \in RepoPaths}] : n \in 0..MaxEntries}

\* the array each JSON text stands for
ArrayOf ==
  [text \in {stringify(l) : l \in EntryLists} |->
     CHOOSE l \in EntryLists : stringify(l) = text]

\* a parse that finds no entry in any text
parseEmpty(text) == Resolved(<<>>)

\* JSON.parse: the array the text is the JSON of, a SyntaxError for any
\* other text
parse(text) ==
  IF text \in DOMAIN ArrayOf
  THEN Resolved(ArrayOf[text])
  ELSE Rejected("Unexpected token in JSON")

\* write(fd, data) at offset 0: what was in the file past the data stays
overlay(text, data) == data \o SubSeq(text, Len(data) + 1, Len(text))

\* the calls started so far
InFlight == {c \in Callers : calls[c].pc # "idle"}

MaxCalls == 3

\* a new call is the first one in flight, or the second next to it
MayStart(c) ==
  /\ calls[c].pc = "idle"
  /\ c = "second" => "first" \in InFlight
  /\ Len(history) + Cardinality(InFlight) < MaxCalls

\* the call of caller c starts; calls already in flight are no longer alone
Started(c, op, repoPath) ==
  [d \in Callers |->
     IF d = c
     THEN [NoCall EXCEPT !.op = op, !.repoPath = repoPath, !.pc = "load",
                         !.alone = (InFlight = {})]
     ELSE IF d \in InFlight THEN [calls[d] EXCEPT !.alone = FALSE]
     ELSE calls[d]]

\* what the renderer is left with when a call has returned value v
Returned(call, v) ==
  [op |-> call.op, repoPath |-> call.repoPath, ret |-> v,
   alone |-> call.alone, ioError |-> call.ioError]

\* the handler of caller c returns v
RegistryReturn(c, call, v) ==
  /\ history' = Append(history, Returned(call, v))
  /\ calls' = [calls EXCEPT ![c] = NoCall]

\* a call that returns before its first await on REPOS_FILE
ReturnAtOnce(c, op, repoPath, v) ==
  /\ history' = Append(history,
                  Returned([NoCall EXCEPT !.op = op, !.repoPath = repoPath,
                                          !.alone = (InFlight = {})], v))
  /\ calls' = [d \in Callers |->
                 IF d \in InFlight THEN [calls[d] EXCEPT !.alone = FALSE]
                 ELSE calls[d]]

\* repositories:get
RepositoriesGet ==
  /\ \E c \in Callers :
       /\ MayStart(c)
       /\ calls' = Started(c, "get", "")
  /\ UNCHANGED <<reposFile, history, handlerVars, runnerVars, uiVars, updaterVars>>

\* repositories:add up to loadRepositories()
RepositoriesAdd ==
  /\ \E c \in Callers, repoPath \in RepoPaths \cup {""} :
       /\ MayStart(c)
       /\ IF repoPath = ""
          THEN ReturnAtOnce(c, "add", repoPath,
                 [success |-> FALSE, error |-> "Repository path is required"])
          ELSE IF repoPath \notin GitRepositories
          THEN ReturnAtOnce(c, "add", repoPath,
                 [success |-> FALSE, error |-> "Not a Git repository"])
          ELSE /\ calls' = Started(c, "add", repoPath)
               /\ UNCHANGED history
  /\ UNCHANGED <<reposFile, handlerVars, runnerVars, uiVars, updaterVars>>

\* repositories:remove up to loadRepositories()
RepositoriesRemove ==
  /\ \E c \in Callers, repoPath \in GitRepositories \cup {""} :
       /\ MayStart(c)
       /\ IF repoPath = ""
          THEN ReturnAtOnce(c, "remove", repoPath,
                 [success |-> FALSE, error |-> "Repository path is required"])
          ELSE /\ calls' = Started(c, "remove", repoPath)
               /\ UNCHANGED history
  /\ UNCHANGED <<reposFile, handlerVars, runnerVars, uiVars, updaterVars>>

\* the exists test of repositories:add with the test left out
hasPathNever(repositories, repoPath) == FALSE

\* repositories.some(repo => repo.path === repoPath)
hasPath(repositories, repoPath) ==
  \E i \in 1..Len(repositories) : repositories[i].path = repoPath

\* the filter that keeps every entry
withoutPathKeepsAll(repositories, repoPath) == repositories

\* repositories.filter(repo => repo.path !== repoPath)
withoutPath(repositories, repoPath) ==
  SelectSeq(repositories, LAMBDA entry : entry.path # repoPath)

\* the handler of caller c goes on with what loadRepositories returned, up
\* to its return or to saveRepositories
Loaded(c, repositories, ioError) ==
  LET call == [calls[c] EXCEPT !.ioError = ioError]
  IN  CASE call.op = "get" -> RegistryReturn(c, call, repositories)
        [] call.op = "add" ->
             IF hasPath(repositories, call.repoPath)
             THEN RegistryReturn(c, call,
                    [success |-> FALSE, error |-> "Repository already added"])
             ELSE /\ calls' = [calls EXCEPT ![c] =
                       [call EXCEPT !.pc = "open",
                                    !.repositories =
                                       Append(repositories, Entry(call.repoPath))]]
                  /\ UNCHANGED history
        [] call.op = "remove" ->
             /\ calls' = [calls EXCEPT ![c] =
                  [call EXCEPT !.pc = "open",
                               !.repositories =
                                  withoutPath(repositories, call.repoPath)]]
             /\ UNCHANGED history

MaxIoErrors == 1

\* the calls so far in which a file operation failed
IoErrors ==
  Cardinality({i \in 1..Len(history) : history[i].ioError})
    + Cardinality({c \in InFlight : calls[c].ioError})

\* whether the next file operation fails
Fails == IF IoErrors < MaxIoErrors THEN BOOLEAN ELSE {FALSE}

\* loadRepositories: fs.pathExists(REPOS_FILE), then fs.readFile and
\* JSON.parse; the catch returns [].  The file is never deleted, so the
\* test and the read are one step, taken when the read is.
LoadRepositories ==
  /\ \E c \in Callers, readFails \in Fails :
       /\ calls[c].pc = "load"
       /\ IF ~reposFile.exists
          THEN ~readFails /\ Loaded(c, <<>>, FALSE)
          ELSE LET parsed == IF readFails THEN Rejected("EIO: i/o error, read")
                             ELSE parse(reposFile.text)
               IN  Loaded(c, IF parsed.ok THEN parsed.value ELSE <<>>, readFails)
  /\ UNCHANGED <<reposFile, handlerVars, runnerVars, uiVars, updaterVars>>

\* what the handler returns when saveRepositories returned false
SaveFailed(op) ==
  [success |-> FALSE,
   error |-> IF op = "add" THEN "Failed to save repository"
             ELSE "Failed to save repositories"]

\* saveRepositories: fs.writeFile opens REPOS_FILE for writing, which
\* empties it
SaveOpen ==
  /\ \E c \in Callers, openFails \in Fails :
       /\ calls[c].pc = "open"
       /\ IF openFails
          THEN /\ RegistryReturn(c, [calls[c] EXCEPT !.ioError = TRUE],
                                 SaveFailed(calls[c].op))
               /\ UNCHANGED reposFile
          ELSE /\ reposFile' = [exists |-> TRUE, text |-> ""]
               /\ calls' = [calls EXCEPT ![c].pc = "write"]
               /\ UNCHANGED history
  /\ UNCHANGED <<handlerVars, runnerVars, uiVars, updaterVars>>

\* saveRepositories: fs.writeFile writes the JSON text and the handler
\* returns
SaveWrite ==
  /\ \E c \in Callers, writeFails \in Fails :
       /\ calls[c].pc = "write"
       /\ IF writeFails
          THEN /\ RegistryReturn(c, [calls[c] EXCEPT !.ioError = TRUE],
                                 SaveFailed(calls[c].op))
               /\ UNCHANGED reposFile
          ELSE /\ reposFile' =
                    [exists |-> TRUE,
                     text |-> overlay(reposFile.text,
                                      stringify(calls[c].repositories))]
               /\ RegistryReturn(c, calls[c], [success |-> TRUE])
  /\ UNCHANGED <<handlerVars, runnerVars, uiVars, updaterVars>>

\* the renderer has the result; the next call starts from the same state
Finish ==
  /\ pc = "done"
  /\ handler' = "none"
  /\ pc' = "idle"
  /\ cmds' = <<>>
  /\ currentBranch' = ""
  /\ result' = ""
  /\ ret' = NoRet
  /\ frags' = <<>>
  /\ message' = ""
  /\ errorType' = ""
  /\ repo' = NoRepo
  /\ commitProc' = NoArgs
  /\ worktree' = NoWorktree
  /\ UNCHANGED <<runnerVars, registryVars, uiVars, updaterVars>>

Next ==
  \/ PullLookup
  \/ PullRebase
  \/ PullStash
  \/ PullRebaseRetry
  \/ PullStashPop
  \/ PullStashFallback
  \/ PullFallback
  \/ PushV2Branch
  \/ PushV2Push
  \/ PushV2SetUpstream
  \/ PushP3Lookup
  \/ PushP3Push
  \/ PushP3Relookup
  \/ PushP3SetUpstream
  \/ PushStreamRemote
  \/ PushStreamBranch
  \/ PushStreamPush
  \/ PullStream
  \/ CommitV1
  \/ CommitV2
  \/ CommitP1
  \/ StatusV1
  \/ StatusP1
  \/ LogV1
  \/ LogP1
  \/ AddV2
  \/ PushOldRemote
  \/ PushOldBranch
  \/ PushOldPush
  \/ PushOldStatus
  \/ ClassifyCall
  \/ Finish

Spec == Init /\ [][Next]_vars

\* the runner calls on their own
RunnerNext ==
  \/ StreamSpawn
  \/ StreamStdoutData
  \/ StreamStderrData
  \/ StreamTimeout
  \/ StreamForceKill
  \/ StreamError
  \/ StreamClose
  \/ SpawnRun
  \/ SpawnStdoutData
  \/ SpawnStderrData
  \/ SpawnTimeout
  \/ SpawnError
  \/ SpawnClose
  \/ ExecRun
  \/ ChildExits
  \/ ChildDies
  \/ ChildSignalled
  \/ RunnerDone

RunnerSpec == Init /\ [][RunnerNext]_vars

\* the registry calls on their own
RegistryNext ==
  \/ RepositoriesGet
  \/ RepositoriesAdd
  \/ RepositoriesRemove
  \/ LoadRepositories
  \/ SaveOpen
  \/ SaveWrite

RegistrySpec == Init /\ [][RegistryNext]_vars

\* REPOS_FILE as an earlier run of the application left it
StoredFiles == {[exists |-> TRUE, text |-> stringify(l)] : l \in EntryLists}

StoredInit == NoCallYet /\ reposFile \in StoredFiles

\* repositories:remove on its own
RemoveNext ==
  \/ RepositoriesRemove
  \/ LoadRepositories
  \/ SaveOpen
  \/ SaveWrite

StoredRegistrySpec == StoredInit /\ [][RemoveNext]_vars

-----------------------------------------------------------------------------
\* The renderer: App (src/App.js).  Every render makes new closures, so an
\* async function in flight keeps the loading and activeRepo of the render it
\* was started from.  A call of window.electronAPI is in flight from its
\* invoke to the step in which the function goes on with its result.

MaxTasks == 3

\* an async function of App that awaits the result of the invoke of channel;
\* repository is its argument or the activeRepo of its closure, loading the
\* loading of its closure
Task(fn, repository, loading, channel) ==
  [fn |-> fn, repo |-> repository, loading |-> loading, awaiting |-> channel]

\* the functions in flight without the i-th
Rest(i) == SubSeq(tasks, 1, i - 1) \o SubSeq(tasks, i + 1, Len(tasks))

\* selectRepository(repo) up to its first await, called from a closure that
\* holds loading, with the functions of rest in flight
selectRepository(repository, loading, rest) ==
  IF loading
  THEN ui' = ui /\ tasks' = rest
  ELSE /\ ui' = [ui EXCEPT !.loading = TRUE, !.activeRepo = repository]
       /\ tasks' = Append(rest, Task("selectRepository", repository, loading,
                                     "git:branches"))

\* onClick of an entry of the repository list
ClickRepository ==
  /\ Len(tasks) < MaxTasks
  /\ \E p \in GitRepositories : selectRepository(Entry(p), ui.loading, tasks)
  /\ UNCHANGED <<handlerVars, runnerVars, registryVars, updaterVars>>

\* gitBranches has resolved: setBranches, then gitLog
BranchesLoaded ==
  /\ \E i \in DOMAIN tasks :
       /\ tasks[i].fn = "selectRepository"
       /\ tasks[i].awaiting = "git:branches"
       /\ ui' = [ui EXCEPT !.branches = tasks[i].repo.path]
       /\ tasks' = [tasks EXCEPT ![i].awaiting = "git:log"]
  /\ UNCHANGED <<handlerVars, runnerVars, registryVars, updaterVars>>

\* gitLog has resolved: setCommits, then gitStatus
LogLoaded ==
  /\ \E i \in DOMAIN tasks :
       /\ tasks[i].fn = "selectRepository"
       /\ tasks[i].awaiting = "git:log"
       /\ ui' = [ui EXCEPT !.commits = tasks[i].repo.path]
       /\ tasks' = [tasks EXCEPT ![i].awaiting = "git:status"]
  /\ UNCHANGED <<handlerVars, runnerVars, registryVars, updaterVars>>

\* gitStatus has resolved: setChanges, and setLoading(false) of the finally
StatusLoaded ==
  /\ \E i \in DOMAIN tasks :
       /\ tasks[i].fn = "selectRepository"
       /\ tasks[i].awaiting = "git:status"
       /\ ui' = [ui EXCEPT !.changes = tasks[i].repo.path, !.loading = FALSE]
       /\ tasks' = Rest(i)
  /\ UNCHANGED <<handlerVars, runnerVars, registryVars, updaterVars>>

\* the repo-details block, with its Pull and Push buttons, is rendered
DetailsRendered == ~ui.loading /\ ui.activeRepo # Null

\* onClick of Pull, up to the invoke of git:pull
ClickPull ==
  /\ DetailsRendered
  /\ Len(tasks) < MaxTasks
  /\ tasks' = Append(tasks, Task("pull", ui.activeRepo, ui.loading, "git:pull"))
  /\ UNCHANGED <<ui, handlerVars, runnerVars, registryVars, updaterVars>>

\* gitPull has resolved, in the Pull handler or in the Push handler after the
\* confirm: on success selectRepository(activeRepo), else a notification
PullReturned ==
  /\ \E i \in DOMAIN tasks, success \in BOOLEAN :
       /\ tasks[i].fn \in {"pull", "push"}
       /\ tasks[i].awaiting = "git:pull"
       /\ IF success
          THEN selectRepository(tasks[i].repo, tasks[i].loading, Rest(i))
          ELSE tasks' = Rest(i) /\ UNCHANGED ui
  /\ UNCHANGED <<handlerVars, runnerVars, registryVars, updaterVars>>

\* onClick of Push, up to the invoke of git:status
ClickPush ==
  /\ DetailsRendered
  /\ Len(tasks) < MaxTasks
  /\ tasks' = Append(tasks, Task("push", ui.activeRepo, ui.loading, "git:status"))
  /\ UNCHANGED <<ui, handlerVars, runnerVars, registryVars, updaterVars>>

\* gitStatus has resolved in the Push handler: it returns when there are
\* uncommitted changes, else it invokes git:push
PushStatusReturned ==
  /\ \E i \in DOMAIN tasks, uncommitted \in BOOLEAN :
       /\ tasks[i].fn = "push"
       /\ tasks[i].awaiting = "git:status"
       /\ tasks' = IF uncommitted THEN Rest(i)
                   ELSE [tasks EXCEPT ![i].awaiting = "git:push"]
  /\ UNCHANGED <<ui, handlerVars, runnerVars, registryVars, updaterVars>>

\* what the Push handler does with the result of gitPush: success, a
\* rejection for which the user confirms the pull, or any other failure
PushOutcomes == {"success", "pull first", "failed"}

\* gitPush has resolved
PushReturned ==
  /\ \E i \in DOMAIN tasks, outcome \in PushOutcomes :
       /\ tasks[i].fn = "push"
       /\ tasks[i].awaiting = "git:push"
       /\ CASE outcome = "success" ->
                 selectRepository(tasks[i].repo, tasks[i].loading, Rest(i))
            [] outcome = "pull first" ->
                 /\ tasks' = [tasks EXCEPT ![i].awaiting = "git:pull"]
                 /\ UNCHANGED ui
            [] outcome = "failed" ->
                 tasks' = Rest(i) /\ UNCHANGED ui
  /\ UNCHANGED <<handlerVars, runnerVars, registryVars, updaterVars>>

\* onClick of Commit with a commit message typed in, up to the invoke of
\* git:add; the button is rendered while changes are listed
ClickCommit ==
  /\ DetailsRendered
  /\ ui.changes # ""
  /\ Len(tasks) < MaxTasks
  /\ tasks' = Append(tasks, Task("commitChanges", ui.activeRepo, ui.loading,
                                 "git:add"))
  /\ UNCHANGED <<ui, handlerVars, runnerVars, registryVars, updaterVars>>

\* gitAdd has resolved; its result is not looked at
GitAddReturned ==
  /\ \E i \in DOMAIN tasks :
       /\ tasks[i].fn = "commitChanges"
       /\ tasks[i].awaiting = "git:add"
       /\ tasks' = [tasks EXCEPT ![i].awaiting = "git:commit"]
  /\ UNCHANGED <<ui, handlerVars, runnerVars, registryVars, updaterVars>>

\* gitCommit has resolved: on success selectRepository(activeRepo)
GitCommitReturned ==
  /\ \E i \in DOMAIN tasks, success \in BOOLEAN :
       /\ tasks[i].fn = "commitChanges"
       /\ tasks[i].awaiting = "git:commit"
       /\ IF success
          THEN selectRepository(tasks[i].repo, tasks[i].loading, Rest(i))
          ELSE tasks' = Rest(i) /\ UNCHANGED ui
  /\ UNCHANGED <<handlerVars, runnerVars, registryVars, updaterVars>>

\* the renderer on its own
UiNext ==
  \/ ClickRepository
  \/ BranchesLoaded
  \/ LogLoaded
  \/ StatusLoaded
  \/ ClickPull
  \/ PullReturned
  \/ ClickPush
  \/ PushStatusReturned
  \/ PushReturned
  \/ ClickCommit
  \/ GitAddReturned
  \/ GitCommitReturned

UiSpec == Init /\ [][UiNext]_vars

-----------------------------------------------------------------------------
\* The main process: the window and the auto-updater (part_000)

\* createWindow: it makes the BrowserWindow and has no return statement
createWindow == [window |-> "open", returns |-> Undefined]

\* app.on('ready'): createWindow, then initializeAutoUpdater with what it
\* returned, which registers the listeners
AppReady ==
  /\ mainWindow = NotCalled
  /\ browserWindow' = createWindow.window
  /\ mainWindow' = createWindow.returns
  /\ UNCHANGED <<updates, handlerVars, runnerVars, registryVars, uiVars>>

\* the events of autoUpdater that have a listener
UpdaterEvents ==
  {"error", "checking-for-update", "update-available", "update-not-available",
   "download-progress", "update-downloaded"}

\* the channel each listener sends on
Channel(e) ==
  CASE e = "error" -> "update-error"
    [] e = "checking-for-update" -> "update-checking"
    [] e = "download-progress" -> "update-download-progress"
    [] OTHER -> e

\* mainWindow && mainWindow.webContents && mainWindow.webContents.send(...):
\* the channel sent on, "none" when the guard stops at mainWindow
send(e) ==
  IF mainWindow \in {Undefined, Null} THEN "none" ELSE Channel(e)

MaxUpdates == 3

\* autoUpdater emits an event and its listener runs
UpdaterEmits ==
  /\ mainWindow # NotCalled
  /\ Len(updates) < MaxUpdates
  /\ \E e \in UpdaterEvents :
       updates' = Append(updates,
                    [event |-> e, sent |-> send(e), window |-> browserWindow])
  /\ UNCHANGED <<mainWindow, browserWindow, handlerVars, runnerVars,
                 registryVars, uiVars>>

\* the window is closed; the listener of 'closed' assigns to the const of
\* createWindow, which throws and leaves the listeners' mainWindow alone
WindowClosed ==
  /\ browserWindow = "open"
  /\ browserWindow' = "closed"
  /\ UNCHANGED <<mainWindow, updates, handlerVars, runnerVars, registryVars,
                 uiVars>>

\* app.on('activate') with no window open: createWindow
Activate ==
  /\ mainWindow # NotCalled
  /\ browserWindow = "closed"
  /\ browserWindow' = createWindow.window
  /\ UNCHANGED <<mainWindow, updates, handlerVars, runnerVars, registryVars,
                 uiVars>>

\* the window and the updater on their own
UpdaterNext ==
  \/ AppReady
  \/ UpdaterEmits
  \/ WindowClosed
  \/ Activate

UpdaterSpec == Init /\ [][UpdaterNext]_vars

-----------------------------------------------------------------------------
\* Properties of one call, read off cmds and ret when the handler has returned.

Done == pc = "done"

PushHandlersWithRetry == {"pushV2", "pushP3"}

IsPull(c) == startsWith(c.line, "git pull ")
IsRebasePull(c) == startsWith(c.line, "git pull --rebase origin ")
IsPlainPull(c) == startsWith(c.line, "git pull origin ")
IsStash(c) == c.line = "git stash"
IsStashPop(c) == c.line = "git stash pop"
IsPush(c) == startsWith(c.line, "git push ")
IsPrimaryPush(c) == startsWith(c.line, "git push origin ")
IsSetUpstreamPush(c) == startsWith(c.line, "git push --set-upstream origin ")

RebasePulls == {i \in DOMAIN cmds : IsRebasePull(cmds[i])}
PlainPulls == {i \in DOMAIN cmds : IsPlainPull(cmds[i])}
Pulls == {i \in DOMAIN cmds : IsPull(cmds[i])}
Stashes == {i \in DOMAIN cmds : IsStash(cmds[i])}
StashPops == {i \in DOMAIN cmds : IsStashPop(cmds[i])}
Pushes == {i \in DOMAIN cmds : IsPush(cmds[i])}
PrimaryPushes == {i \in DOMAIN cmds : IsPrimaryPush(cmds[i])}
SetUpstreamPushes == {i \in DOMAIN cmds : IsSetUpstreamPush(cmds[i])}

Succeeded == ret # NoRet /\ ret.success
Failed == ret # NoRet /\ ~ret.success

\* the primary push failed and its text has one of the two missing-upstream marks
PrimaryPushLacksUpstream ==
  \E i \in PrimaryPushes :
    /\ ~cmds[i].ok
    /\ includes(cmds[i].value, "--set-upstream") \/ includes(cmds[i].value, "has no upstream")

\* the primary push failed with a text of a non-fast-forward rejection or of
\* an authentication failure
PrimaryPushRejectedOrDenied ==
  \E i \in PrimaryPushes :
    /\ ~cmds[i].ok
    /\ LET text == toLowerCase(cmds[i].value)
       IN  \/ includes(text, "rejected") \/ includes(text, "non-fast-forward")
           \/ includes(text, "authentication failed") \/ includes(text, "denied")

\* the first pull --rebase failed; its text, lower-cased
FirstRebaseFailed == RebasePulls # {} /\ ~cmds[3].ok
FirstRebaseText == toLowerCase(cmds[3].value)
FirstRebaseBlockedByLocalChanges ==
  /\ FirstRebaseFailed
  /\ includes(FirstRebaseText, "unstaged") \/ includes(FirstRebaseText, "uncommitted")

\* C1 as stated: after a primary push that failed for a missing upstream,
\* exactly one push --set-upstream ran in the call, and if it succeeded the
\* call returned success:true without an error field.
C1_ExactlyOneUpstreamRetry ==
  (Done /\ handler \in PushHandlersWithRetry /\ PrimaryPushLacksUpstream) =>
    /\ Cardinality(SetUpstreamPushes) = 1
    /\ \A i \in SetUpstreamPushes :
         cmds[i].ok => (Succeeded /\ "error" \notin DOMAIN ret)

\* C1 amended: at most one push --set-upstream runs; none runs only in the
\* part_003 revision when its second git branch --show-current fails, and the
\* call then returns a failure; a retry that ran and succeeded gives
\* success:true without an error field.
C1_AtMostOneUpstreamRetry ==
  (Done /\ handler \in PushHandlersWithRetry /\ PrimaryPushLacksUpstream) =>
    /\ Cardinality(SetUpstreamPushes) <= 1
    /\ SetUpstreamPushes = {} =>
         /\ handler = "pushP3"
         /\ cmds[Len(cmds)].line = "git branch --show-current"
         /\ ~cmds[Len(cmds)].ok
         /\ Failed
    /\ \A i \in SetUpstreamPushes :
         /\ i = Len(cmds)
         /\ cmds[i].ok => (Succeeded /\ "error" \notin DOMAIN ret)

C1_Witness ==
  /\ Done /\ handler = "pushV2" /\ PrimaryPushLacksUpstream
  /\ Cardinality(SetUpstreamPushes) = 1
  /\ cmds[Len(cmds)].ok
  /\ Succeeded /\ "error" \notin DOMAIN ret

\* C2: after a primary push that failed with a rejection or authentication
\* text, whatever else the text holds, the call ran no second push and
\* returned the failure.
C2_NoRetryOnRejectedOrDenied ==
  (Done /\ handler \in PushHandlersWithRetry /\ PrimaryPushRejectedOrDenied) =>
    /\ Cardinality(Pushes) = 1
    /\ Failed

\* C3: a push on a repository with no remote named exactly origin returns
\* success:false with errorType NO_REMOTE and starts no push process (the
\* streaming revision, the one that has the NO_REMOTE result).
C3_NoOriginNoPush ==
  (Done /\ handler = "pushStream" /\ ~HasOrigin(repo)) =>
    /\ Failed
    /\ "errorType" \in DOMAIN ret /\ ret.errorType = "NO_REMOTE"
    /\ Pushes = {}

\* C4: when the first pull --rebase failed for unstaged or uncommitted
\* changes, git stash, the retried pull --rebase and git stash pop each ran
\* at most once and in that order, and the call returned success:true
\* whenever the retried pull succeeded, whatever git stash pop did.
C4_StashRetryOnce ==
  (Done /\ handler \in PullHandlers /\ FirstRebaseBlockedByLocalChanges) =>
    /\ Cardinality(Stashes) <= 1
    /\ Cardinality(StashPops) <= 1
    /\ Cardinality(RebasePulls) <= 2
    /\ \A i \in Stashes : i = 4
    /\ \A i \in RebasePulls : i = 3 \/ (i = 5 /\ Stashes # {})
    /\ \A i \in StashPops : i = 6 /\ 5 \in RebasePulls
    /\ (5 \in RebasePulls /\ cmds[5].ok) => (Succeeded /\ ret.result = cmds[5].value)

C4_Witness ==
  /\ Done /\ handler \in PullHandlers /\ FirstRebaseBlockedByLocalChanges
  /\ 5 \in RebasePulls /\ cmds[5].ok
  /\ 6 \in StashPops /\ ~cmds[6].ok
  /\ Succeeded

\* C5: no pull call runs more than two pull commands, rebase and plain
\* pulls counted together.
C5_AtMostTwoPulls ==
  handler \in PullHandlers => Cardinality(Pulls) <= 2

\* C6: when the first pull --rebase failed with a text that mentions neither
\* unstaged nor uncommitted changes, the call ran exactly one plain pull and
\* no stash command, and returned success:true exactly when the plain pull
\* succeeded.
C6_PlainFallbackOnce ==
  (Done /\ handler \in PullHandlers /\ FirstRebaseFailed
     /\ ~FirstRebaseBlockedByLocalChanges) =>
    /\ Cardinality(PlainPulls) = 1
    /\ Cardinality(RebasePulls) = 1
    /\ Stashes = {} /\ StashPops = {}
    /\ \A i \in PlainPulls : Succeeded <=> cmds[i].ok

C6_Witness ==
  /\ Done /\ handler = "pull" /\ FirstRebaseFailed
  /\ ~FirstRebaseBlockedByLocalChanges
  /\ \E i \in PlainPulls : ~cmds[i].ok
  /\ Failed

\* the lookup of the origin remote failed, or the branch lookup printed nothing
PullLookupCameBackEmpty ==
  /\ Len(cmds) >= 2
  /\ \/ ~cmds[1].ok
     \/ cmds[2].ok /\ cmds[2].value = ""

\* C7: when the lookup of the origin remote failed or the branch lookup
\* returned nothing, the pull handler returned success:false and ran neither
\* a pull nor a stash command.
C7_PullFailsFast ==
  (handler \in PullHandlers /\ PullLookupCameBackEmpty) =>
    /\ Done /\ Failed
    /\ Pulls = {} /\ Stashes = {} /\ StashPops = {}

C7_Witness ==
  /\ Done /\ handler \in PullHandlers
  /\ cmds[1].ok /\ cmds[2].ok /\ cmds[2].value = ""
  /\ Failed /\ Len(cmds) = 2

\* C8: on a detached HEAD the push handler returns success:false and runs no
\* push command.
C8_DetachedHeadNoPush ==
  (Done /\ handler \in {"pushStream", "pushV2", "pushP3"} /\ repo.branch = "") =>
    /\ Failed
    /\ Pushes = {}

\* the categories in the order of the rules
CategoryOrder == <<"NETWORK_ERROR", "AUTH_ERROR", "CONFLICT_ERROR", "NO_UPSTREAM">>

PieceCategories == {frags[i].cat : i \in DOMAIN frags}

\* the first category in the order of the rules that a piece of the message
\* belongs to
FirstCategory ==
  IF \E k \in DOMAIN CategoryOrder : CategoryOrder[k] \in PieceCategories
  THEN LET k == CHOOSE j \in DOMAIN CategoryOrder :
                  /\ CategoryOrder[j] \in PieceCategories
                  /\ \A l \in 1..(j - 1) : CategoryOrder[l] \notin PieceCategories
       IN  CategoryOrder[k]
  ELSE "UNKNOWN_ERROR"

Classified == Done /\ handler = "classifyGitError"

\* C9: classifyGitError returns one category: the first one, in the order
\* Network, Authentication, Conflict, No Upstream, that the message matches,
\* and Unknown only when the message matches none.
C9_FirstMatchingCategory ==
  Classified =>
    /\ errorType \in {"NETWORK_ERROR", "AUTH_ERROR", "CONFLICT_ERROR",
                      "NO_UPSTREAM", "UNKNOWN_ERROR"}
    /\ errorType = FirstCategory

C9_Witness ==
  /\ Classified
  /\ Len(frags) = 2
  /\ frags[1].cat = "NO_UPSTREAM" /\ frags[2].cat = "AUTH_ERROR"
  /\ errorType = "AUTH_ERROR"

\* C10: a message that holds a network pattern in any letter case is
\* NETWORK_ERROR, whatever else it holds.
C10_NetworkNeverUnknown ==
  (Classified /\ "NETWORK_ERROR" \in PieceCategories) =>
    errorType = "NETWORK_ERROR"

C10_Witness ==
  /\ Classified
  /\ Len(frags) = 2
  /\ frags[1].cat = "AUTH_ERROR"
  /\ frags[2].text = "NETWORK IS UNREACHABLE"
  /\ errorType = "NETWORK_ERROR"

-----------------------------------------------------------------------------
\* The streaming pull and push handlers: what the catch returns

StreamHandlers == {"pullStream", "pushStream"}

\* the message of the error the handler caught: what the last process of the
\* call was rejected with
RawFailureMessage == cmds[Len(cmds)].value

StreamCallFailed ==
  /\ Done
  /\ handler \in StreamHandlers
  /\ Failed

\* the user-facing messages of the categories
CategoryMessage == HumanReadableMessages("")

\* C11: a failed streaming pull or push classified UNKNOWN_ERROR returns the
\* message of the caught error as its error field, unchanged.
C11_UnknownSurfacesRawMessage ==
  (StreamCallFailed /\ ret.errorType = "UNKNOWN_ERROR")
    => (~cmds[Len(cmds)].ok /\ ret.error = RawFailureMessage)

C11_Witness ==
  /\ StreamCallFailed
  /\ ret.errorType = "UNKNOWN_ERROR"
  /\ ret.error = "Git exited with code 1"

\* C12: a failed streaming pull or push in a category other than
\* UNKNOWN_ERROR returns the one message of its category as error and the
\* raw failure text as details.
C12_FixedMessageAndDetails ==
  (StreamCallFailed /\ ret.errorType # "UNKNOWN_ERROR")
    => /\ ret.error = CategoryMessage[ret.errorType]
       /\ "details" \in DOMAIN ret
       /\ ret.details = RawFailureMessage

-----------------------------------------------------------------------------
\* The process runners

StillRunning == gitProcess.state = "running"

\* C13: in runGitStream a child still running after the timeout fired has
\* been sent SIGTERM, and a child still running after the 5 s timer that
\* follows has fired has been sent SIGKILL.
C13_TermThenKill ==
  runner = "runGitStream" =>
    /\ (timeoutId = "fired" /\ StillRunning) => Delivered("SIGTERM")
    /\ (killTimer = "fired" /\ StillRunning) => Delivered("SIGKILL")

\* the steps that bring a call to its result: the timer callbacks, the end of
\* the child (by itself or by a delivered signal) and the 'error' and 'close'
\* events
RunnerProgress ==
  \/ StreamTimeout
  \/ StreamForceKill
  \/ StreamError
  \/ StreamClose
  \/ SpawnTimeout
  \/ SpawnError
  \/ SpawnClose
  \/ ChildExits
  \/ ChildDies

CallPending == runner # "none" /\ promise = Pending

\* C14: a runner call that has not returned always has a step left that
\* brings it to its result; it is never left pending with no timer armed and
\* a child that neither ends nor has been sent a signal that ends it.
C14_PendingCallCanProgress == CallPending => ENABLED RunnerProgress

\* the call has returned after the 'close' of its child
CallSettled == runner # "none" /\ promise # Pending /\ gitProcess.state = "closed"

ReportsTimeout == ~promise.ok /\ includes(toLowerCase(promise.value), "timed out")

\* the child ended by a signal that the timer of the runner sent
EndedByTimer == gitProcess.endedBy = "runner"

\* C15: a runner call reports a timeout exactly when the timer of the runner
\* ended the child: not for a child that exited by itself, was ended by a
\* signal from elsewhere or ran over the output buffer, and always for a
\* child the timer ended.
C15_TimeoutIffTimerEnded == CallSettled => (ReportsTimeout <=> EndedByTimer)

\* C16: in runGitStream the bytes retained for stdout and for stderr never
\* exceed MAX_BUFFER each.
C16_RetainedWithinCap ==
  runner = "runGitStream" =>
    (stdoutSize <= MAX_BUFFER /\ stderrSize <= MAX_BUFFER)

\* the runners that follow the child themselves
SpawnRunners == {"runGitStream", "executeGitCommandSpawn"}

\* the child exited by itself with an exit code and the call has returned
ExitedWithCode ==
  /\ CallSettled
  /\ runner \in SpawnRunners
  /\ gitProcess.endedBy = "self"

ExitCodeMessage == "Git exited with code " \o ToString(gitProcess.code)

\* C17 as stated: on exit code 0 the call succeeds with the captured stdout
\* (with the white space at its ends cut); on another exit code it fails
\* with stderr when stderr is not empty and with 'Git exited with code N'
\* when it is.
C17_ExitCodeDecides ==
  ExitedWithCode =>
    IF gitProcess.code = 0
    THEN promise = Resolved(trim(stdoutChunks))
    ELSE promise \in
           IF stderrChunks # ""
           THEN {Rejected(stderrChunks), Rejected(trim(stderrChunks))}
           ELSE {Rejected(ExitCodeMessage)}

\* C17 amended: if the timeout callback ran before 'close' the call fails as
\* timed out whatever the exit code.  Otherwise, on exit code 0 it succeeds
\* with the trimmed stdout, and runGitStream with the trimmed stderr when the
\* trimmed stdout is empty; on another exit code it fails with stderr when
\* that is not empty (runGitStream: trimmed, and not empty after trimming)
\* and with 'Git exited with code N' otherwise.
C17_RunnerResult ==
  ExitedWithCode =>
    LET out == trim(stdoutChunks)
        err == IF runner = "runGitStream" THEN trim(stderrChunks)
               ELSE stderrChunks
    IN  IF killed
        THEN ReportsTimeout
        ELSE IF gitProcess.code = 0
        THEN promise = Resolved(IF runner = "runGitStream" /\ out = ""
                                THEN err ELSE out)
        ELSE promise = Rejected(IF err # "" THEN err ELSE ExitCodeMessage)

\* a push-like child: exit code 0, nothing on stdout, its report on stderr
C17_Witness ==
  /\ ExitedWithCode
  /\ runner = "runGitStream"
  /\ ~killed
  /\ gitProcess.code = 0
  /\ stdoutChunks = ""
  /\ promise = Resolved("fatal: bad object HEAD")

-----------------------------------------------------------------------------
\* How git processes are started, and the commit handlers

\* the ways of starting a process that hand a command line to a shell
ShellVias == {"exec", "spawn shell"}

\* C18: every git process of a call is started from its list of arguments;
\* none is started through a shell that parses a command string.
C18_NoShell == \A i \in 1..Len(cmds) : cmds[i].via \notin ShellVias

CommitHandlers == {"commitV1", "commitV2", "commitP1"}

CommitReturned == Done /\ handler \in CommitHandlers

\* C19: for every commit message the git process of the commit call is
\* started with the arguments commit, -m and the message, character for
\* character.
C19_MessagePassedExactly ==
  CommitReturned =>
    /\ commitProc.started
    /\ commitProc.argv = <<"git", "commit", "-m", message>>

\* git ran, failed, and its output holds 'nothing to commit'
NothingToCommitFailure ==
  /\ commitProc.started
  /\ ~commitProc.timedOut
  /\ commitProc.code # 0
  /\ includes(toLowerCase(commitProc.stdout \o commitProc.stderr),
              "nothing to commit")

\* C20: a commit that fails with 'nothing to commit' in the output of git
\* returns success false with the message for no staged changes, not the
\* text of git and not a general error.
C20_NothingToCommitIsDistinct ==
  (CommitReturned /\ NothingToCommitFailure) =>
    (~ret.success /\ ret.error = NoStagedChangesMessage)

-----------------------------------------------------------------------------
\* Properties of the status and log handlers.

StatusHandlers == {"statusV1", "statusP1"}

\* the status handler has returned and git status had succeeded
StatusReturned == Done /\ handler \in StatusHandlers /\ cmds[1].ok

\* the status code of a change as the claim reads it: the two columns
\* without the blank one
CodeOf(change) == trim(change.code)

CodeTable(code) ==
  CASE code = "A" -> "added"
    [] code = "D" -> "deleted"
    [] code = "M" -> "modified"
    [] code = "??" -> "untracked"
    [] OTHER -> "modified"

\* with both columns set, M decides before D and D before A
CodeTableTwoColumns(code) ==
  IF code = "??" THEN "untracked"
  ELSE IF includes(code, "M") THEN "modified"
  ELSE IF includes(code, "D") THEN "deleted"
  ELSE IF includes(code, "A") THEN "added"
  ELSE "modified"

\* C21, as stated: the status handler returns one entry per porcelain line,
\* in order, and the status of each entry is the one the table gives for the
\* line's code: added for A, deleted for D, modified for M, untracked for ??,
\* modified for every other code.
C21_StatusByCode ==
  StatusReturned =>
    /\ Len(ret) = Len(worktree.changes)
    /\ \A i \in 1..Len(ret) :
         ret[i].status = CodeTable(CodeOf(worktree.changes[i]))

\* C21, amended: one entry per porcelain line, in order; ?? gives untracked;
\* otherwise a code holding M gives modified, else one holding D gives
\* deleted, else one holding A gives added, and every other code modified.
C21_StatusByCodePrecedence ==
  StatusReturned =>
    /\ Len(ret) = Len(worktree.changes)
    /\ \A i \in 1..Len(ret) :
         ret[i].status = CodeTableTwoColumns(CodeOf(worktree.changes[i]))

\* two modified files and one untracked file: three entries, two modified
\* and one untracked
C21_Witness ==
  /\ StatusReturned
  /\ Len(worktree.changes) = 3
  /\ Len(ret) = 3
  /\ [i \in 1..3 |-> worktree.changes[i].code] = <<" M", "M ", "??">>
  /\ [i \in 1..3 |-> ret[i].status] = <<"modified", "modified", "untracked">>

\* C22: for every porcelain line, the first line and lines whose first
\* status column is a space included, the file of the returned entry is
\* exactly the path printed after the two status columns and the separator.
C22_FileIsThePath ==
  StatusReturned =>
    \A i \in 1..Len(ret) :
      i <= Len(worktree.changes) => ret[i].file = worktree.changes[i].path

LogHandlers == {"logV1", "logP1"}

\* the log handler has returned and git log had succeeded
LogReturned == Done /\ handler \in LogHandlers /\ cmds[1].ok

\* C23: for every log line hash|author|date|subject the log handler returns
\* an entry whose hash, author, date and message are those four values, also
\* when the author name or the subject holds the character '|'.
C23_LogFieldsExact ==
  LogReturned =>
    \A i \in 1..Len(worktree.commits) :
      LET c == worktree.commits[i]
      IN  /\ i <= Len(ret)
          /\ ret[i] = [hash |-> c.hash, author |-> c.author, date |-> c.date,
                       message |-> c.subject]

-----------------------------------------------------------------------------
\* Properties of the values returned.

\* add, commit, pull and push of main-process-handlers.js, second revision
ResultHandlers == {"addV2", "commitV2", "pull", "pushV2"}

\* a field of the returned object is populated: present and not empty
Populated(field) == field \in DOMAIN ret /\ ret[field] # ""

\* C24: every result returned by add, commit, pull and push has exactly one
\* of output (the field result of the code) and error populated: with
\* success true a non-empty output and no error, with success false an error
\* and no output.
C24_OutputXorError ==
  (Done /\ handler \in ResultHandlers) =>
    IF ret.success
    THEN Populated("result") /\ "error" \notin DOMAIN ret
    ELSE Populated("error") /\ "result" \notin DOMAIN ret

\* the push handlers with a retry or fallback step in a catch
PushHandlersWithCatchSteps == {"pushV2", "pushP3", "pushOld"}

LastProcessFailed == cmds # <<>> /\ ~cmds[Len(cmds)].ok

-----------------------------------------------------------------------------
\* Properties of the registry, read off history and REPOS_FILE.

\* no registry call is in flight
Quiet == InFlight = {}

\* what loadRepositories returns for REPOS_FILE as it is
Registry ==
  IF ~reposFile.exists THEN <<>>
  ELSE LET parsed == parse(reposFile.text)
       IN  IF parsed.ok THEN parsed.value ELSE <<>>

EntriesWithPath(repositories, p) ==
  {i \in 1..Len(repositories) : repositories[i].path = p}

AlreadyAdded == [success |-> FALSE, error |-> "Repository already added"]

\* calls i and i + 1 ran one after the other, each with no other call in
\* flight, and the second found REPOS_FILE readable
InARow(i) ==
  /\ i + 1 <= Len(history)
  /\ history[i].alone
  /\ history[i + 1].alone
  /\ ~history[i + 1].ioError

AddOf(h, p) == h.op = "add" /\ h.repoPath = p

\* C26: addRepository(p), called twice in a row with a valid path p on a
\* registry without p and with the registry file readable and writable,
\* returns success the first time and the failure 'Repository already added'
\* the second time, and the registry holds exactly one entry for p afterwards.
C26_SecondAddAlreadyAdded ==
  \A p \in GitRepositories :
    /\ (Len(history) >= 1 /\ AddOf(history[1], p) /\ ~history[1].ioError)
         => history[1].ret = [success |-> TRUE]
    /\ \A i \in 1..Len(history) :
         (InARow(i) /\ AddOf(history[i], p) /\ history[i].ret.success
            /\ AddOf(history[i + 1], p))
           => /\ history[i + 1].ret = AlreadyAdded
              /\ (Quiet /\ i + 1 = Len(history))
                   => Cardinality(EntriesWithPath(Registry, p)) = 1

C26_Witness ==
  /\ Quiet
  /\ Len(history) = 2
  /\ InARow(1)
  /\ AddOf(history[1], "/w/app") /\ history[1].ret = [success |-> TRUE]
  /\ AddOf(history[2], "/w/app") /\ history[2].ret = AlreadyAdded
  /\ Cardinality(EntriesWithPath(Registry, "/w/app")) = 1

\* the name path.basename gives for the paths of the model
NameOf(p) == CASE p = "/w/app" -> "app" [] p = "/w/lib" -> "lib"

Listed(h) == {h.ret[k] : k \in 1..Len(h.ret)}

\* C27: listRepositories called after a successful addRepository(p)
\* includes the entry {name: basename(p), path: p}; listRepositories called
\* after a successful removeRepository(p) has no entry with path p.
C27_ListAfterAddAndRemove ==
  \A p \in GitRepositories :
    \A i \in 1..Len(history) :
      (InARow(i) /\ history[i + 1].op = "get"
         /\ history[i].repoPath = p /\ history[i].op \in {"add", "remove"}
         /\ history[i].ret.success)
        => IF history[i].op = "add"
           THEN [name |-> NameOf(p), path |-> p] \in Listed(history[i + 1])
           ELSE \A e \in Listed(history[i + 1]) : e.path # p

\* add, list, remove, list
C27_Witness ==
  /\ Len(history) = 3
  /\ InARow(1) /\ InARow(2)
  /\ AddOf(history[1], "/w/lib") /\ history[1].ret.success
  /\ history[2].op = "remove" /\ history[2].repoPath = "/w/lib"
  /\ history[2].ret.success
  /\ history[3].op = "get" /\ history[3].ret = <<>>

\* every call so far ran with no other call in flight
OneAtATime ==
  /\ \A i \in 1..Len(history) : history[i].alone
  /\ \A c \in InFlight : calls[c].alone

NoTwoEntriesWithPath(p) == Cardinality(EntriesWithPath(Registry, p)) <= 1

\* C28: after any sequence of addRepository and removeRepository calls that
\* run one at a time, starting from an empty registry, no two registry
\* entries have the same path.
C28_PathsUniqueOneAtATime ==
  OneAtATime => \A p \in GitRepositories : NoTwoEntriesWithPath(p)

\* three calls, one at a time, the path of the first added again after the
\* second
C28_Witness ==
  /\ OneAtATime
  /\ Quiet
  /\ Len(history) = 3
  /\ AddOf(history[1], "/w/app") /\ history[1].ret.success
  /\ AddOf(history[2], "/w/lib") /\ history[2].ret.success
  /\ AddOf(history[3], "/w/app")
  /\ Len(Registry) = 2

\* calls i and j, both addRepository(p), were in flight at the same time
ConcurrentAdds(i, j, p) ==
  /\ i # j
  /\ AddOf(history[i], p) /\ ~history[i].alone
  /\ AddOf(history[j], p) /\ ~history[j].alone

\* C29: when two addRepository calls for the same path run concurrently,
\* their reads and writes interleaved in any order, the registry never holds
\* two entries with that path.
C29_ConcurrentAddsNoDuplicate ==
  \A p \in GitRepositories :
    (\E i, j \in 1..Len(history) : ConcurrentAdds(i, j, p))
      => NoTwoEntriesWithPath(p)

\* both concurrent calls wrote and returned success; the path is there once
C29_Witness ==
  /\ Quiet
  /\ Len(history) = 2
  /\ ConcurrentAdds(1, 2, "/w/app")
  /\ history[1].ret.success /\ history[2].ret.success
  /\ Cardinality(EntriesWithPath(Registry, "/w/app")) = 1

\* call i changed the registry, or so it reported
Updated(i) == history[i].op \in {"add", "remove"} /\ history[i].ret.success

\* the registry is as call i left it, as far as its path goes
Reflected(i) ==
  IF history[i].op = "add"
  THEN hasPath(Registry, history[i].repoPath)
  ELSE ~hasPath(Registry, history[i].repoPath)

\* no other call was about the path of call i
OnlyCallFor(i) ==
  \A j \in 1..Len(history) : j # i => history[j].repoPath # history[i].repoPath

\* an update is lost: the call returned success, no other call was about its
\* path, and the registry does not show it
LostUpdate(i) == Quiet /\ Updated(i) /\ OnlyCallFor(i) /\ ~Reflected(i)

SomeIoError == \E i \in 1..Len(history) : history[i].ioError

\* C30: an update is lost only through interleaving (or a failed file
\* operation): while calls run one at a time and REPOS_FILE can be read and
\* written, every call that returned success is reflected in the registry.
\* C30_Witness is the interleaving the claim describes.
C30_LostOnlyWhenInterleaved ==
  \A i \in 1..Len(history) : LostUpdate(i) => (~OneAtATime \/ SomeIoError)

\* two concurrent calls for different paths, no file operation failed, both
\* returned success, and the registry reflects only one of them
C30_Witness ==
  /\ Len(history) = 2
  /\ ~SomeIoError
  /\ ~history[1].alone /\ ~history[2].alone
  /\ Updated(1) /\ Updated(2)
  /\ history[1].repoPath # history[2].repoPath
  /\ \E i, j \in 1..2 : i # j /\ LostUpdate(i) /\ Reflected(j)

\* what REPOS_FILE holds for the path p: nothing (no file), text that
\* JSON.parse rejects, an array with an entry for p, or one without
Stored(p) ==
  CASE ~reposFile.exists -> "missing"
    [] ~parse(reposFile.text).ok -> "unparsable"
    [] EntriesWithPath(parse(reposFile.text).value, p) # {} -> "holds"
    [] OTHER -> "lacks"

\* caller c takes the step in which loadRepositories returns
Loads(c) == calls[c].pc = "load" /\ calls'[c].pc # "load"

\* a handler returns in this step
Returns == Len(history') = Len(history) + 1

ReturnedNow == history'[Len(history')]

NotAGitRepository == [success |-> FALSE, error |-> "Not a Git repository"]

\* a call with a path that has no .git directory returns in this step
RefusesNotGit ==
  (Returns /\ ReturnedNow.op = "add"
     /\ ReturnedNow.repoPath \notin GitRepositories \cup {""})
    => /\ ReturnedNow.ret = NotAGitRepository
       /\ \A c \in Callers : calls'[c].pc = calls[c].pc
       /\ reposFile' = reposFile

\* caller c, adding a path the file holds, is back from loadRepositories
RefusesAlreadyAdded(c) ==
  (Loads(c) /\ calls[c].op = "add" /\ Stored(calls[c].repoPath) = "holds")
    => \/ ~Returns /\ calls'[c].ioError
       \/ /\ Returns
          /\ ReturnedNow.ret = AlreadyAdded
          /\ ReturnedNow.repoPath = calls[c].repoPath
          /\ ~ReturnedNow.ioError
          /\ reposFile' = reposFile

\* C31: addRepository with a path that has no .git directory returns the
\* failure 'Not a Git repository', and addRepository with a path the registry
\* file holds returns the failure 'Repository already added' (when the file
\* is read: a failed read is the case of C35); either call returns before
\* saveRepositories, in a step that leaves the registry file as it is.
C31_RefusedAddWritesNothing ==
  [][RefusesNotGit /\ \A c \in Callers : RefusesAlreadyAdded(c)]_vars

\* both refusals have been returned, and the registry still holds the one
\* entry written before them
C31_Witness ==
  /\ Quiet
  /\ Len(history) = 3
  /\ AddOf(history[1], "/w/app") /\ history[1].ret.success
  /\ AddOf(history[2], "/w/doc") /\ history[2].ret = NotAGitRepository
  /\ AddOf(history[3], "/w/app") /\ history[3].ret = AlreadyAdded
  /\ Registry = <<Entry("/w/app")>>

\* the git stash commands that succeeded
StashesDone == {i \in Stashes : cmds[i].ok}

\* C32: in the pull handler, once git stash has run successfully, git stash
\* pop is attempted before the call returns, on every path, the plain-pull
\* fallback after a failed retry included.
C32_StashAlwaysPopped ==
  (Done /\ handler \in PullHandlers /\ StashesDone # {})
    => \E j \in StashPops : \A i \in StashesDone : i < j

\* caller c takes the step in which fs.writeFile writes the text
Writes(c) == calls[c].pc = "write" /\ calls'[c].pc # "write"

\* the list that holds only the entry of p
Only(p) == <<[name |-> NameOf(p), path |-> p]>>

\* REPOS_FILE is there and loadRepositories of caller c, in this step, cannot
\* read it or cannot parse it
Unreadable(c) ==
  /\ Loads(c)
  /\ reposFile.exists
  /\ calls'[c].ioError \/ Stored(calls[c].repoPath) = "unparsable"

\* no error is reported: the handler goes on to save the list of p alone
AddsToNothing(c) ==
  (Unreadable(c) /\ calls[c].op = "add")
    => /\ ~Returns
       /\ calls'[c].pc = "open"
       /\ calls'[c].repositories = Only(calls[c].repoPath)

\* the write of that list, when it does not fail, returns success; on the
\* file as saveRepositories opened it, the registry is then that list
RewritesAsOnly(c) ==
  (Writes(c) /\ calls[c].op = "add"
     /\ calls[c].repositories = Only(calls[c].repoPath))
    => /\ Returns
       /\ \/ ReturnedNow.ret = SaveFailed("add") /\ reposFile' = reposFile
          \/ /\ ReturnedNow.ret = [success |-> TRUE]
             /\ reposFile'.exists
             /\ reposFile.text = "" => Registry' = Only(calls[c].repoPath)

\* C35: when the registry file exists and cannot be read or parsed,
\* addRepository(p) for a valid path reports no error: it goes on with an
\* empty list, writes the list holding only p and returns success, so the
\* entries stored before are gone.
C35_UnreadableRegistryRewritten ==
  [][\A c \in Callers : AddsToNothing(c) /\ RewritesAsOnly(c)]_vars

\* /w/lib was added; the add of /w/app could not read the file, returned
\* success, and the registry is /w/app alone
C35_Witness ==
  /\ Quiet
  /\ Len(history) = 2
  /\ AddOf(history[1], "/w/lib") /\ history[1].ret = [success |-> TRUE]
  /\ AddOf(history[2], "/w/app") /\ history[2].ret = [success |-> TRUE]
  /\ history[2].ioError /\ history[2].alone
  /\ Registry = Only("/w/app")

\* the places of list before that hold another path than p
Others(before, p) == {i \in 1..Len(before) : before[i].path # p}

\* list after is list before without the entries of path p, the other
\* entries as they were and in the order they had
IsBeforeWithout(after, before, p) ==
  /\ Len(after) = Cardinality(Others(before, p))
  /\ \A i \in Others(before, p) :
       after[Cardinality({j \in Others(before, p) : j <= i})] = before[i]

\* caller c, removing a path, is back from a loadRepositories that read the
\* file: what it goes on to save is the stored list without that path
FiltersStored(c) ==
  (Loads(c) /\ calls[c].op = "remove" /\ ~calls'[c].ioError
     /\ Stored(calls[c].repoPath) \in {"holds", "lacks"})
    => /\ ~Returns
       /\ calls'[c].pc = "open"
       /\ IsBeforeWithout(calls'[c].repositories, Registry, calls[c].repoPath)
       /\ Stored(calls[c].repoPath) = "lacks"
            => calls'[c].repositories = Registry

\* the write of that list, when it does not fail, returns success; on the
\* file as saveRepositories opened it, the registry is then that list
SavesFiltered(c) ==
  (Writes(c) /\ calls[c].op = "remove")
    => /\ Returns
       /\ \/ ReturnedNow.ret = SaveFailed("remove") /\ reposFile' = reposFile
          \/ /\ ReturnedNow.ret = [success |-> TRUE]
             /\ reposFile.text = "" => Registry' = calls[c].repositories

\* C36: removeRepository(p) removes every entry whose path is p and leaves
\* the other entries unchanged and in their order; for a path that is not
\* registered it returns success and the list is as it was.
C36_RemoveKeepsTheOthers ==
  [][\A c \in Callers : FiltersStored(c) /\ SavesFiltered(c)]_vars

\* one call, made on a stored list: the two entries of other paths are
\* left, in their order
C36_Witness ==
  /\ Quiet
  /\ Len(history) = 1
  /\ history[1].op = "remove" /\ history[1].repoPath = "/w/app"
  /\ history[1].ret = [success |-> TRUE]
  /\ ~history[1].ioError
  /\ Registry = <<Entry("/w/doc"), Entry("/w/lib")>>

\* what runGitStream rejects with when its timer ended the child
TimeoutMessage == "TIMEOUT: Command timed out. Check your network connection."

\* the streamed pull or push of the call was ended by the runner's timeout
EndedByTimeout ==
  /\ StreamCallFailed
  /\ cmds[Len(cmds)].via = "spawn"
  /\ ~cmds[Len(cmds)].ok
  /\ RawFailureMessage = TimeoutMessage

\* what the handlers return for a connection failure
ConnectionFailure ==
  ClassifiedFailure("fatal: unable to access 'https://example.com/repo.git/': Could not resolve host: example.com")

\* C37: a streaming pull or push ended by the runner's timeout returns
\* errorType NETWORK_ERROR with the fixed network message, the category and
\* message of a connection failure; there is no timeout category.
C37_TimeoutIsNetworkError ==
  EndedByTimeout
    => /\ ret.errorType = "NETWORK_ERROR"
       /\ ret.error = "Network error. Check your internet connection."
       /\ ret.errorType = ConnectionFailure.errorType
       /\ ret.error = ConnectionFailure.error
       /\ ret.details = TimeoutMessage

\* a push whose lookups succeeded and whose streamed push timed out
C37_Witness ==
  /\ EndedByTimeout
  /\ handler = "pushStream"
  /\ Len(cmds) = 3
  /\ ret.errorType = "NETWORK_ERROR"

\* the older push handler is in its catch for a primary push that failed with
\* text mentioning upstream, and git status reported no uncommitted change
UpstreamFailureOnCleanTree ==
  /\ Done
  /\ handler = "pushOld"
  /\ Len(cmds) >= 4
  /\ IsPrimaryPush(cmds[3]) /\ ~cmds[3].ok
  /\ includes(toLowerCase(cmds[3].value), "upstream")
  /\ cmds[4].line = "git status --porcelain"
  /\ cmds[4].ok /\ cmds[4].value = ""

\* C38: in the older push handler, when the primary git push origin <branch>
\* fails with text mentioning upstream and the working tree has no
\* uncommitted changes, the handler runs git push --set-upstream origin
\* <branch> with the branch it determined, and returns success when that
\* command succeeds.
C38_OldPushRetriesWithUpstream ==
  UpstreamFailureOnCleanTree
    => \E i \in SetUpstreamPushes :
         /\ cmds[i].line = "git push --set-upstream origin " \o currentBranch
         /\ cmds[i].ok => Succeeded

-----------------------------------------------------------------------------
\* The renderer

\* the channels of the operations that change a repository
ChangingChannels == {"git:pull", "git:push", "git:add", "git:commit"}

\* function i of tasks has a changing operation in flight
Changing(i) == tasks[i].awaiting \in ChangingChannels

\* C33: the renderer never has two operations that change the same
\* repository (pull, push, commit) in flight at the same time.
C33_OneChangeAtATime ==
  \A i, j \in DOMAIN tasks :
    (i # j /\ Changing(i) /\ Changing(j)) => tasks[i].repo # tasks[j].repo

\* the loads of selectRepository in flight
LoadsInFlight == {i \in DOMAIN tasks : tasks[i].fn = "selectRepository"}

\* C34: at most one load of branches, log and status is in flight at any
\* time, and the branches, commits and changes on display all come from the
\* same repository.
C34_OneLoadOneRepository ==
  /\ Cardinality(LoadsInFlight) <= 1
  /\ DetailsRendered
       => /\ ui.branches = ui.commits
          /\ ui.commits = ui.changes

-----------------------------------------------------------------------------
\* The auto-updater

\* C39: whenever the auto-updater emits one of its six events after the app
\* is ready, with the main window open, the matching message is sent to the
\* renderer of the main window.
C39_UpdaterEventsForwarded ==
  \A i \in DOMAIN updates :
    updates[i].window = "open" => updates[i].sent = Channel(updates[i].event)

====
